---- MODULE Spec2Model ----
(***************************************************************************)
(* Model of the Datatrans webhook signature middleware (ValidateWebhook    *)
(* and extractTimeAndHash).  Strings and byte slices are sequences: a      *)
(* string is a sequence of one-character strings, a decoded byte slice is  *)
(* a sequence of integers 0..255.                                          *)
(***************************************************************************)
EXTENDS Integers, Sequences, FiniteSets, TLC

\* ---------------------------------------------------------------- bounds
MaxBody == 2        \* longest request body, in bytes
MaxHdrLen == 3      \* longest header enumerated character by character
DigestLen == 3      \* bytes of the modelled digest (sha256.Size is 32)

\* ------------------------------------------------------- string helpers
\* s[lo:hi] of Go, 0-based, half open; only used with 0 <= lo <= hi <= len
Slice(s, lo, hi) == SubSeq(s, lo + 1, hi)

RECURSIVE IndexFrom(_, _, _)
IndexFrom(s, c, i) ==
    IF i > Len(s) THEN -1
    ELSE IF s[i] = c THEN i - 1
    ELSE IndexFrom(s, c, i + 1)

\* strings.IndexRune: 0-based offset of the first c in s, -1 when absent
IndexRune(s, c) == IndexFrom(s, c, 1)

\* ------------------------------------------------------------ encoding/hex
hextable == << "0", "1", "2", "3", "4", "5", "6", "7",
               "8", "9", "a", "b", "c", "d", "e", "f" >>

upperhex == << "A", "B", "C", "D", "E", "F" >>

\* reverseHexTable: the value of a hex character, 255 for any other one
reverseHexTable(c) ==
    IF \E i \in 1..16 : hextable[i] = c
    THEN (CHOOSE i \in 1..16 : hextable[i] = c) - 1
    ELSE IF \E i \in 1..6 : upperhex[i] = c
    THEN (CHOOSE i \in 1..6 : upperhex[i] = c) + 9
    ELSE 255

RECURSIVE DecodeLoop(_, _)
\* hex.Decode: the pairs decoded so far are out; returns the bytes decoded
\* before the first error together with the error
DecodeLoop(src, out) ==
    LET j == 2 * Len(out) + 2 IN
    IF j <= Len(src)
    THEN LET a == reverseHexTable(src[j - 1])
             b == reverseHexTable(src[j])
         IN IF a > 15 \/ b > 15
            THEN [bytes |-> out, err |-> "InvalidByteError"]
            ELSE DecodeLoop(src, Append(out, a * 16 + b))
    ELSE IF Len(src) % 2 = 1
    THEN IF reverseHexTable(src[j - 1]) > 15
         THEN [bytes |-> out, err |-> "InvalidByteError"]
         ELSE [bytes |-> out, err |-> "ErrLength"]
    ELSE [bytes |-> out, err |-> "nil"]

\* hex.DecodeString: returns src[:n] and the error
DecodeString(s) == DecodeLoop(s, << >>)

RECURSIVE EncodeToString(_)
\* hex.EncodeToString / fmt's %x: two lower-case digits per byte
EncodeToString(bs) ==
    IF bs = << >> THEN << >>
    ELSE << hextable[(bs[1] \div 16) + 1], hextable[(bs[1] % 16) + 1] >>
         \o EncodeToString(Tail(bs))

\* ------------------------------------------------------ extractTimeAndHash
NoSignature == [panic |-> FALSE, time |-> << >>, s0hashB |-> << >>]

\* extractTimeAndHash with the timestamp taken from offset 3 instead of 2
extractTimeAndHashSkip3(headerValue) ==
    LET lhv == Len(headerValue)
        commaIDX == IndexRune(headerValue, ",")
    IN IF lhv = 0 THEN NoSignature
       ELSE IF commaIDX < 1 THEN NoSignature
       ELSE IF 2 > commaIDX
       THEN [panic |-> TRUE, time |-> << >>, s0hashB |-> << >>]
       ELSE IF lhv < commaIDX + 4 THEN NoSignature
       ELSE [panic |-> FALSE,
             time |-> Slice(headerValue, 3, commaIDX),
             s0hashB |-> DecodeString(Slice(headerValue, commaIDX + 4, lhv)).bytes]

\* extractTimeAndHash with the hash taken from offset commaIDX+3
extractTimeAndHashSep3(headerValue) ==
    LET lhv == Len(headerValue)
        commaIDX == IndexRune(headerValue, ",")
    IN IF lhv = 0 THEN NoSignature
       ELSE IF commaIDX < 1 THEN NoSignature
       ELSE IF 2 > commaIDX
       THEN [panic |-> TRUE, time |-> << >>, s0hashB |-> << >>]
       ELSE IF lhv < commaIDX + 4 THEN NoSignature
       ELSE [panic |-> FALSE,
             time |-> Slice(headerValue, 2, commaIDX),
             s0hashB |-> DecodeString(Slice(headerValue, commaIDX + 3, lhv)).bytes]

extractTimeAndHash(headerValue) ==
    LET lhv == Len(headerValue)
        commaIDX == IndexRune(headerValue, ",")
    IN IF lhv = 0 THEN NoSignature
       ELSE IF commaIDX < 1 THEN NoSignature
       ELSE IF 2 > commaIDX
       THEN \* headerValue[2:commaIDX]: slice bounds out of range [2:1]
            [panic |-> TRUE, time |-> << >>, s0hashB |-> << >>]
       ELSE IF lhv < commaIDX + 4 THEN NoSignature
       ELSE [panic |-> FALSE,
             time |-> Slice(headerValue, 2, commaIDX),
             s0hashB |-> DecodeString(Slice(headerValue, commaIDX + 4, lhv)).bytes]

\* ------------------------------------------------------------ crypto/hmac
\* HMAC-SHA-256 is modelled as a keyed digest of DigestLen bytes that is a
\* deterministic function of the key and of the bytes written so far, and
\* is collision free on the messages of the model: the message is read as
\* a number in bijective base Len(Alphabet)+1, shifted by a number read
\* from the key, and reduced modulo 256^DigestLen.  Digests are kept as
\* little-endian base-256 digit sequences while they are computed.
Alphabet == hextable \o << "A", "F", "t", "=", ",", "s", "x" >>

CharCode(c) == CHOOSE i \in 1..Len(Alphabet) : Alphabet[i] = c

RECURSIVE MulAdd(_, _, _)
\* d * m + c on a little-endian digit sequence, overflow dropped
MulAdd(d, m, c) ==
    IF d = << >> THEN << >>
    ELSE LET v == d[1] * m + c
         IN << v % 256 >> \o MulAdd(Tail(d), m, v \div 256)

RECURSIVE Reverse(_)
Reverse(s) == IF s = << >> THEN << >> ELSE Append(Reverse(Tail(s)), s[1])

RECURSIVE KeyNum(_)
KeyNum(k) == IF k = << >> THEN 0 ELSE (KeyNum(Tail(k)) * 257 + k[1] + 1) % 65536

\* hmac.New(sha256.New, key)
hmacNew(k) == [key |-> k, d |-> [i \in 1..DigestLen |-> 0]]

RECURSIVE hmacWrite(_, _)
\* hash.Hash.Write: absorbs the bytes of p in order
hmacWrite(h, p) ==
    IF p = << >> THEN h
    ELSE hmacWrite([h EXCEPT !.d = MulAdd(h.d, Len(Alphabet) + 1, CharCode(p[1]))],
                   Tail(p))

\* hash.Hash.Sum(nil): the digest of everything written, DigestLen bytes
hmacSum(h) == Reverse(MulAdd(h.d, 1, KeyNum(h.key)))

\* a comparison that stops at the end of the shorter operand
hmacEqualPrefix(a, b) ==
    \A i \in 1..(IF Len(a) < Len(b) THEN Len(a) ELSE Len(b)) : a[i] = b[i]

\* a comparison of the lengths only
hmacEqualLen(a, b) == Len(a) = Len(b)

\* hmac.Equal: subtle.ConstantTimeCompare(a, b) = 1, false when the lengths differ
hmacEqual(a, b) == Len(a) = Len(b) /\ \A i \in 1..Len(a) : a[i] = b[i]

\* the digest the processor attaches to a message
HMACSHA256(k, msg) == hmacSum(hmacWrite(hmacNew(k), msg))

\* ---------------------------------------------------------------- inputs
RECURSIVE StringsUpTo(_, _)
\* all strings over the characters cs of length at most n
StringsUpTo(cs, n) ==
    IF n = 0 THEN { << >> }
    ELSE LET shorter == StringsUpTo(cs, n - 1)
         IN shorter \cup { Append(s, c) : s \in shorter, c \in cs }

\* WebhookOption.Sign2HMACKey values: two valid ones, an odd length, a non-hex
KeyStrings == { << >>, << "6", "1" >>, << "6" >>, << "6", "x" >> }

BodyChars == { "2", "3" }
Bodies == StringsUpTo(BodyChars, MaxBody)

ShortHeaders == StringsUpTo({ "t", "=", ",", "a", "x" }, MaxHdrLen)

Timestamps == { << >>, << "1" >>, << "1", "2" >>, << "x" >> }
Prefixes == { << "t", "=" >>, << "x", "=" >>, << "t" >>, << >> }
Separators == { << ",", "s", "0", "=" >>, << ",", "x", "x", "x" >>, << "," >>, << >> }
Variants == { "ok", "upper", "trailing", "odd", "short", "long", "flip", "empty", "nonhex" }

RECURSIVE ToUpper(_)
ToUpper(s) ==
    IF s = << >> THEN << >>
    ELSE << IF s[1] = "a" THEN "A" ELSE IF s[1] = "f" THEN "F" ELSE s[1] >>
         \o ToUpper(Tail(s))

\* the hash token a sender puts after ",s0=" for the digest dg
Token(v, dg) ==
    CASE v = "ok"       -> EncodeToString(dg)
      [] v = "upper"    -> ToUpper(EncodeToString(dg))
      [] v = "trailing" -> EncodeToString(dg) \o << "x" >>
      [] v = "odd"      -> EncodeToString(dg) \o << "0" >>
      [] v = "short"    -> EncodeToString(SubSeq(dg, 1, Len(dg) - 1))
      [] v = "long"     -> EncodeToString(dg \o << 0 >>)
      [] v = "flip"     -> EncodeToString([dg EXCEPT ![1] = (dg[1] + 1) % 256])
      [] v = "empty"    -> << >>
      [] v = "nonhex"   -> << "x", "x" >>

\* the header a signer holding key k sends for timestamp ts and body b
SignedHeader(k, ts, b) ==
    << "t", "=" >> \o ts \o << ",", "s", "0", "=" >> \o EncodeToString(HMACSHA256(k, ts \o b))

BuiltHeaders(k, b) ==
    { pre \o ts \o sep \o Token(v, HMACSHA256(k, ts \o b)) :
        pre \in Prefixes, ts \in Timestamps, sep \in Separators, v \in Variants }

\* ----------------------------------------------------------------- state
VARIABLES
    pc,          \* "new", "failed", "idle", "extract", "copy", "verify", "returned", "panicked"
    key,         \* the decoded Sign2HMACKey captured by the middleware
    mw,          \* what ValidateWebhook returned: "none" yet, "ok", "nil" with an error
    hdrPresent,  \* the request carries a Datatrans-Signature header
    hdrValue,    \* its value
    body,        \* the bytes the original r.Body delivers
    failAt,      \* the original body fails after this many bytes, -1 never
    pos,         \* bytes read from the original body so far
    closed,      \* number of Close calls on the original body
    rBody,       \* what r.Body refers to: "orig" or "buf"
    buf,         \* bytes.Buffer contents
    hmv,         \* the running HMAC
    hmvFed,      \* every byte written to hmv so far
    tm,          \* parsed timestamp
    s0,          \* parsed hash
    nextCalls,   \* invocations of next.ServeHTTP
    errCalls,    \* invocations of wo.ErrorHandler(err).ServeHTTP
    errArg,      \* the error given to wo.ErrorHandler
    seen,        \* what the invoked handler reads from r.Body
    compared,    \* evaluations of hmac.Equal
    resp,        \* the response written by the error responder, if any
    wo,          \* the WebhookOption the caller passed to ValidateWebhook
    eh,          \* wo.ErrorHandler as captured by the middleware
    other,       \* the second request in flight: its context while it is not running
    cl           \* the API client side: merchants, clients, the call in progress

vars == << pc, key, mw, hdrPresent, hdrValue, body, failAt, pos, closed, rBody,
           buf, hmv, hmvFed, tm, s0, nextCalls, errCalls, errArg, seen, compared,
           resp, wo, eh, other, cl >>

reqVars == << hdrPresent, hdrValue, body, failAt, pos, closed, rBody,
              buf, hmv, hmvFed, tm, s0, nextCalls, errCalls, errArg, seen, compared,
              resp >>

ErrWebhookMissingSignature == "malformed header Datatrans-Signature"
ErrWebhookMismatchSignature == "mismatch of Datatrans-Signature"
ErrCopyFailed == "ValidateWebhook: copy failed"

NoResponse == [by |-> "none", status |-> 0, body |-> << >>]

\* lines 30-34: http.Error(w, err.Error(), 500) writes the text and a newline
defaultErrorHandler(err) == [by |-> "default", status |-> 500, body |-> << err, "\n" >>]

\* a handler supplied by the caller; what it writes is its own business
customErrorHandler(err) == [by |-> "custom", status |-> 0, body |-> << >>]

\* lines 29-35 with the test dropped: the default replaces any handler
resolveErrorHandlerAlways(given) == "default"

\* lines 29-35: a nil wo.ErrorHandler is replaced by the default responder
resolveErrorHandler(given) == IF given = "nil" THEN "default" ELSE given

\* wo.ErrorHandler(err).ServeHTTP(w, r)
ErrorHandler(h, err) ==
    IF h = "default" THEN defaultErrorHandler(err) ELSE customErrorHandler(err)

\* the context of a request that has not arrived yet
IdleCtx ==
    [ pc |-> "idle", hdrPresent |-> FALSE, hdrValue |-> << >>, body |-> << >>,
      failAt |-> -1, pos |-> 0, closed |-> 0, rBody |-> "orig", buf |-> << >>,
      hmv |-> hmacNew(<< >>), hmvFed |-> << >>, tm |-> << >>, s0 |-> << >>,
      nextCalls |-> 0, errCalls |-> 0, errArg |-> "none", seen |-> << >>,
      compared |-> 0, resp |-> NoResponse ]

NoRequest ==
    /\ hdrPresent = FALSE /\ hdrValue = << >> /\ body = << >> /\ failAt = -1
    /\ pos = 0 /\ closed = 0 /\ rBody = "orig" /\ buf = << >>
    /\ hmv = hmacNew(<< >>) /\ hmvFed = << >> /\ tm = << >> /\ s0 = << >>
    /\ nextCalls = 0 /\ errCalls = 0 /\ errArg = "none"
    /\ seen = << >> /\ compared = 0 /\ resp = NoResponse

\* before MakeClient: no merchants, no client, no call
NoClient == [pc |-> "new"]

Init ==
    /\ pc = "new" /\ key = << >> /\ mw = "none" /\ NoRequest
    /\ wo = [Sign2HMACKey |-> << >>, ErrorHandler |-> "nil"]
    /\ eh = "none"
    /\ other = IdleCtx
    /\ cl = NoClient

\* http.Header.Get: "" when the header is absent
HeaderGet == IF hdrPresent THEN hdrValue ELSE << >>

\* what a handler invoked now reads from r.Body, from its current position:
\* the buffered copy, or what the original body still delivers, which is
\* nothing once it is closed and otherwise its bytes up to the end or to
\* the point where it fails
ReadAll ==
    IF rBody = "buf" THEN buf
    ELSE IF closed > 0 THEN << >>
    ELSE SubSeq(body, pos + 1, IF failAt = -1 THEN Len(body) ELSE failAt)

\* ------------------------------------------------------------ construction
\* ValidateWebhook with the error of hex.DecodeString dropped
ValidateWebhookIgnoreErr ==
    /\ pc = "new"
    /\ UNCHANGED cl
    /\ \E ks \in KeyStrings, given \in { "nil", "custom" } :
         /\ wo' = [Sign2HMACKey |-> ks, ErrorHandler |-> given]
         /\ mw' = "ok" /\ pc' = "idle" /\ key' = DecodeString(ks).bytes
         /\ eh' = resolveErrorHandler(given)
    /\ UNCHANGED << reqVars, other >>

\* ValidateWebhook refusing an empty Sign2HMACKey as well
ValidateWebhookNoEmpty ==
    /\ pc = "new"
    /\ UNCHANGED cl
    /\ \E ks \in KeyStrings, given \in { "nil", "custom" } :
         LET r == DecodeString(ks) IN
         /\ wo' = [Sign2HMACKey |-> ks, ErrorHandler |-> given]
         /\ IF r.err # "nil" \/ Len(ks) = 0
            THEN /\ mw' = "nil" /\ pc' = "failed" /\ key' = << >> /\ eh' = "none"
            ELSE /\ mw' = "ok" /\ pc' = "idle" /\ key' = r.bytes
                 /\ eh' = resolveErrorHandler(given)
    /\ UNCHANGED << reqVars, other >>

\* ValidateWebhook(wo): decodes the key or fails
ValidateWebhook ==
    /\ pc = "new"
    /\ UNCHANGED cl
    /\ \E ks \in KeyStrings, given \in { "nil", "custom" } :
         LET r == DecodeString(ks) IN
         /\ wo' = [Sign2HMACKey |-> ks, ErrorHandler |-> given]
         /\ IF r.err # "nil"
            THEN /\ mw' = "nil" /\ pc' = "failed" /\ key' = << >> /\ eh' = "none"
            ELSE /\ mw' = "ok" /\ pc' = "idle" /\ key' = r.bytes
                 /\ eh' = resolveErrorHandler(given)
    /\ UNCHANGED << reqVars, other >>

\* the server hands a request to the middleware
Receive ==
    /\ pc = "idle"
    /\ UNCHANGED cl
    /\ \E b \in Bodies, f \in -1..MaxBody, present \in BOOLEAN :
         /\ f <= Len(b)
         /\ \E h \in (IF present THEN ShortHeaders \cup BuiltHeaders(key, b) ELSE { << >> }) :
              /\ hdrPresent' = present
              /\ hdrValue' = h
              /\ body' = b
              /\ failAt' = f
    /\ pc' = "extract"
    /\ UNCHANGED << key, mw, wo, eh, other, pos, closed, rBody, buf, hmv, hmvFed,
                    tm, s0, nextCalls, errCalls, errArg, seen, compared, resp >>

\* the middleware's handler is over (returned or panicked); the server
\* goes on to its next request
Finish ==
    /\ pc \in { "returned", "panicked" }
    /\ UNCHANGED cl
    /\ pc' = "idle"
    /\ hdrPresent' = FALSE /\ hdrValue' = << >> /\ body' = << >> /\ failAt' = -1
    /\ pos' = 0 /\ closed' = 0 /\ rBody' = "orig" /\ buf' = << >>
    /\ hmv' = hmacNew(<< >>) /\ hmvFed' = << >> /\ tm' = << >> /\ s0' = << >>
    /\ nextCalls' = 0 /\ errCalls' = 0 /\ errArg' = "none"
    /\ seen' = << >> /\ compared' = 0 /\ resp' = NoResponse
    /\ UNCHANGED << key, mw, wo, eh, other >>

\* the check of line 47 with && in place of ||
missingSignatureAnd(t, h) == t = << >> /\ Len(h) = 0

\* line 47: tm == "" || len(s0) == 0
missingSignature(t, h) == t = << >> \/ Len(h) = 0

\* lines 46-53: parse the header, reject a missing signature, start the HMAC
Extract ==
    /\ pc = "extract"
    /\ UNCHANGED cl
    /\ LET r == extractTimeAndHash(HeaderGet) IN
       IF r.panic
       THEN /\ pc' = "panicked"
            /\ UNCHANGED << tm, s0, hmv, hmvFed, errCalls, errArg, seen, resp >>
       ELSE /\ tm' = r.time
            /\ s0' = r.s0hashB
            /\ IF missingSignature(r.time, r.s0hashB)
               THEN /\ errCalls' = errCalls + 1
                    /\ errArg' = ErrWebhookMissingSignature
                    /\ resp' = ErrorHandler(eh, ErrWebhookMissingSignature)
                    /\ seen' = ReadAll
                    /\ pc' = "returned"
                    /\ UNCHANGED << hmv, hmvFed >>
               ELSE /\ hmv' = hmacWrite(hmacNew(key), r.time)
                    /\ hmvFed' = r.time
                    /\ pc' = "copy"
                    /\ UNCHANGED << errCalls, errArg, seen, resp >>
    /\ UNCHANGED << key, mw, wo, eh, other, hdrPresent, hdrValue, body, failAt, pos, closed,
                    rBody, buf, nextCalls, compared >>

\* io.Copy: one Read that returns n > 0 bytes, written to buf and to hmv
CopyRead ==
    /\ pc = "copy"
    /\ UNCHANGED cl
    /\ \E n \in 1..MaxBody :
         /\ pos + n <= (IF failAt = -1 THEN Len(body) ELSE failAt)
         /\ LET p == SubSeq(body, pos + 1, pos + n) IN
            /\ buf' = buf \o p
            /\ hmv' = hmacWrite(hmv, p)
            /\ hmvFed' = hmvFed \o p
            /\ pos' = pos + n
    /\ UNCHANGED << pc, key, mw, wo, eh, other, hdrPresent, hdrValue, body, failAt, closed, rBody,
                    tm, s0, nextCalls, errCalls, errArg, seen, compared, resp >>

\* the failure branch without its Close
CopyFailNoClose ==
    /\ pc = "copy"
    /\ UNCHANGED cl
    /\ failAt # -1 /\ pos = failAt
    /\ errCalls' = errCalls + 1
    /\ errArg' = ErrCopyFailed
    /\ resp' = ErrorHandler(eh, ErrCopyFailed)
    /\ seen' = ReadAll
    /\ pc' = "returned"
    /\ UNCHANGED << key, mw, wo, eh, other, hdrPresent, hdrValue, body, failAt, pos, closed, rBody,
                    buf, hmv, hmvFed, tm, s0, nextCalls, compared >>

\* the error of io.Copy ignored: the drain ends as if io.EOF had been read
CopyFailIgnored ==
    /\ pc = "copy"
    /\ UNCHANGED cl
    /\ failAt # -1 /\ pos = failAt
    /\ closed' = closed + 1
    /\ rBody' = "buf"
    /\ pc' = "verify"
    /\ UNCHANGED << key, mw, wo, eh, other, hdrPresent, hdrValue, body, failAt, pos, buf,
                    hmv, hmvFed, tm, s0, nextCalls, errCalls, errArg, seen, compared, resp >>

\* the failure branch attaching the partly filled buffer to the request
CopyFailReplace ==
    /\ pc = "copy"
    /\ UNCHANGED cl
    /\ failAt # -1 /\ pos = failAt
    /\ closed' = closed + 1
    /\ rBody' = "buf"
    /\ errCalls' = errCalls + 1
    /\ errArg' = ErrCopyFailed
    /\ resp' = ErrorHandler(eh, ErrCopyFailed)
    /\ seen' = buf
    /\ pc' = "returned"
    /\ UNCHANGED << key, mw, wo, eh, other, hdrPresent, hdrValue, body, failAt, pos, buf,
                    hmv, hmvFed, tm, s0, nextCalls, compared >>

\* lines 56-59: a Read fails; close the body and report the failure
CopyFail ==
    /\ pc = "copy"
    /\ UNCHANGED cl
    /\ failAt # -1 /\ pos = failAt
    /\ closed' = closed + 1
    /\ errCalls' = errCalls + 1
    /\ errArg' = ErrCopyFailed
    /\ resp' = ErrorHandler(eh, ErrCopyFailed)
    /\ seen' = ReadAll
    /\ pc' = "returned"
    /\ UNCHANGED << key, mw, wo, eh, other, hdrPresent, hdrValue, body, failAt, pos, rBody, buf,
                    hmv, hmvFed, tm, s0, nextCalls, compared >>

\* the end of the drain without r.Body = ioutil.NopCloser(&buf)
CopyEOFKeepBody ==
    /\ pc = "copy"
    /\ UNCHANGED cl
    /\ failAt = -1 /\ pos = Len(body)
    /\ closed' = closed + 1
    /\ pc' = "verify"
    /\ UNCHANGED << key, mw, wo, eh, other, hdrPresent, hdrValue, body, failAt, pos, rBody, buf,
                    hmv, hmvFed, tm, s0, nextCalls, errCalls, errArg, seen, compared, resp >>

\* lines 61-62: Read returned io.EOF; close the body and attach the buffer
CopyEOF ==
    /\ pc = "copy"
    /\ UNCHANGED cl
    /\ failAt = -1 /\ pos = Len(body)
    /\ closed' = closed + 1
    /\ rBody' = "buf"
    /\ pc' = "verify"
    /\ UNCHANGED << key, mw, wo, eh, other, hdrPresent, hdrValue, body, failAt, pos, buf,
                    hmv, hmvFed, tm, s0, nextCalls, errCalls, errArg, seen, compared, resp >>

\* Verify with a replay check: a timestamp the other request was already
\* forwarded with is refused
VerifyOnce ==
    /\ pc = "verify"
    /\ UNCHANGED cl
    /\ compared' = compared + 1
    /\ seen' = ReadAll
    /\ IF \/ ~hmacEqual(hmacSum(hmv), s0)
          \/ (other.pc = "returned" /\ other.nextCalls = 1 /\ other.tm = tm)
       THEN /\ errCalls' = errCalls + 1
            /\ errArg' = ErrWebhookMismatchSignature
            /\ resp' = ErrorHandler(eh, ErrWebhookMismatchSignature)
            /\ UNCHANGED nextCalls
       ELSE /\ nextCalls' = nextCalls + 1
            /\ UNCHANGED << errCalls, errArg, resp >>
    /\ pc' = "returned"
    /\ UNCHANGED << key, mw, wo, eh, other, hdrPresent, hdrValue, body, failAt, pos, closed, rBody,
                    buf, hmv, hmvFed, tm, s0 >>

\* lines 64-69: compare the digests and invoke one of the two handlers
Verify ==
    /\ pc = "verify"
    /\ UNCHANGED cl
    /\ compared' = compared + 1
    /\ seen' = ReadAll
    /\ IF ~hmacEqual(hmacSum(hmv), s0)
       THEN /\ errCalls' = errCalls + 1
            /\ errArg' = ErrWebhookMismatchSignature
            /\ resp' = ErrorHandler(eh, ErrWebhookMismatchSignature)
            /\ UNCHANGED nextCalls
       ELSE /\ nextCalls' = nextCalls + 1
            /\ UNCHANGED << errCalls, errArg, resp >>
    /\ pc' = "returned"
    /\ UNCHANGED << key, mw, wo, eh, other, hdrPresent, hdrValue, body, failAt, pos, closed, rBody,
                    buf, hmv, hmvFed, tm, s0 >>

Next ==
    \/ ValidateWebhook
    \/ Receive
    \/ Finish
    \/ Extract
    \/ CopyRead
    \/ CopyFail
    \/ CopyEOF
    \/ Verify

Spec == Init /\ [][Next]_vars

\* ------------------------------------------------- two requests in flight
\* The server runs one goroutine per request.  The variables of a request
\* describe the goroutine that runs now; the other goroutine's request is
\* parked in other, and Switch lets the scheduler change between them at
\* any step.  key, mw, wo and eh belong to the middleware and are shared.
ConcBodies == { << "3" >>, << "2", "3" >>, << "2", "2" >>, << "3", "3" >>, << "1", "2", "3" >> }
ConcTimestamps == { << >>, << "1" >>, << "1", "2" >> }
ConcSigned == << "1", "2", "3" >>

\* headers carrying the digest of ConcSigned, and one whose comma is at offset 1
ConcHeaders(k) ==
    { << "t", "=" >> \o ts \o << ",", "s", "0", "=" >> \o EncodeToString(HMACSHA256(k, ConcSigned)) :
        ts \in ConcTimestamps } \cup { << "t", "," >> }

Ctx ==
    [ pc |-> pc, hdrPresent |-> hdrPresent, hdrValue |-> hdrValue, body |-> body,
      failAt |-> failAt, pos |-> pos, closed |-> closed, rBody |-> rBody, buf |-> buf,
      hmv |-> hmv, hmvFed |-> hmvFed, tm |-> tm, s0 |-> s0,
      nextCalls |-> nextCalls, errCalls |-> errCalls, errArg |-> errArg, seen |-> seen,
      compared |-> compared, resp |-> resp ]

ReceiveConc ==
    /\ pc = "idle"
    /\ UNCHANGED cl
    /\ \E b \in ConcBodies, f \in { -1, 1 }, present \in BOOLEAN :
         /\ \E h \in (IF present THEN ConcHeaders(key) ELSE { << >> }) :
              /\ hdrPresent' = present
              /\ hdrValue' = h
              /\ body' = b
              /\ failAt' = f
    /\ pc' = "extract"
    /\ UNCHANGED << key, mw, wo, eh, other, pos, closed, rBody, buf, hmv, hmvFed,
                    tm, s0, nextCalls, errCalls, errArg, seen, compared, resp >>

\* the scheduler with the running HMAC held by the middleware instead of
\* the request: it stays where it is when the goroutines change
SwitchSharedHmv ==
    /\ mw = "ok"
    /\ UNCHANGED cl
    /\ other' = Ctx
    /\ pc' = other.pc /\ hdrPresent' = other.hdrPresent /\ hdrValue' = other.hdrValue
    /\ body' = other.body /\ failAt' = other.failAt /\ pos' = other.pos
    /\ closed' = other.closed /\ rBody' = other.rBody /\ buf' = other.buf
    /\ hmvFed' = other.hmvFed /\ tm' = other.tm
    /\ s0' = other.s0 /\ nextCalls' = other.nextCalls /\ errCalls' = other.errCalls
    /\ errArg' = other.errArg /\ seen' = other.seen /\ compared' = other.compared
    /\ resp' = other.resp
    /\ UNCHANGED << key, mw, wo, eh, hmv >>

\* the scheduler stops the running goroutine and resumes the other one
Switch ==
    /\ mw = "ok"
    /\ UNCHANGED cl
    /\ other' = Ctx
    /\ pc' = other.pc /\ hdrPresent' = other.hdrPresent /\ hdrValue' = other.hdrValue
    /\ body' = other.body /\ failAt' = other.failAt /\ pos' = other.pos
    /\ closed' = other.closed /\ rBody' = other.rBody /\ buf' = other.buf
    /\ hmv' = other.hmv /\ hmvFed' = other.hmvFed /\ tm' = other.tm
    /\ s0' = other.s0 /\ nextCalls' = other.nextCalls /\ errCalls' = other.errCalls
    /\ errArg' = other.errArg /\ seen' = other.seen /\ compared' = other.compared
    /\ resp' = other.resp
    /\ UNCHANGED << key, mw, wo, eh >>

NextConc ==
    \/ ValidateWebhook
    \/ ReceiveConc
    \/ Switch
    \/ Finish
    \/ Extract
    \/ CopyRead
    \/ CopyFail
    \/ CopyEOF
    \/ Verify

SpecConc == Init /\ [][NextConc]_vars

\* ================================================================ claims
Terminal == pc \in { "returned", "panicked" }

\* the request's header as the parser sees it, parsed afresh
Parsed == extractTimeAndHash(HeaderGet)

\* the original body was read to its end without a read error
Drained == failAt = -1 /\ pos = Len(body)

\* C1: the next handler is invoked only if the parsed timestamp and hash are
\* non-empty, the body was drained without error and the HMAC of timestamp
\* followed by body under the configured key equals the parsed hash.
C1_FailClosed ==
    nextCalls > 0 =>
        /\ ~Parsed.panic
        /\ Parsed.time # << >>
        /\ Parsed.s0hashB # << >>
        /\ Drained
        /\ HMACSHA256(key, Parsed.time \o body) = Parsed.s0hashB

C1_Witness == pc = "returned" /\ nextCalls = 1 /\ body # << >>

\* C2: when the middleware is over, exactly one of the next handler and the
\* error responder was invoked, exactly once, and the middleware returned
\* rather than failing with a fault.
C2_ExactlyOneHandler ==
    Terminal => pc = "returned" /\ nextCalls + errCalls = 1

\* C3: a request whose header is "t=" ts ",s0=" hex(HMAC(key, ts body)) for a
\* non-empty comma-free ts, and whose body reads without error, is forwarded
\* and the error responder is not invoked.
C3_Completeness ==
    ( /\ Terminal
      /\ hdrPresent
      /\ failAt = -1
      /\ \E ts \in Timestamps \ { << >> } : hdrValue = SignedHeader(key, ts, body) )
    => pc = "returned" /\ nextCalls = 1 /\ errCalls = 0

C3_Witness ==
    /\ pc = "returned" /\ nextCalls = 1 /\ errCalls = 0
    /\ key # << >> /\ body # << >>
    /\ hdrValue = SignedHeader(key, << "1", "2" >>, body)

\* C4: whenever the next handler is invoked, r.Body is the replay buffer, it
\* yields exactly the original body, and those are the bytes fed to the HMAC
\* after the timestamp.
C4_BodyReplayed ==
    nextCalls > 0 =>
        /\ rBody = "buf"
        /\ seen = body
        /\ hmvFed = tm \o seen

C4_Witness == nextCalls = 1 /\ Len(seen) = MaxBody /\ seen = body

\* C5 as stated: on every path the original body was closed exactly once by
\* the time the terminal handler has been invoked.
C5_ClosedOnceEveryPath ==
    (pc = "returned" /\ nextCalls + errCalls > 0) => closed = 1

\* C5 amended: the body is closed exactly once on the body-read-failure,
\* signature-mismatch and forwarding paths, and is not closed by the
\* middleware on the missing-signature path.
C5_ClosedOnceWhenRead ==
    (pc = "returned" /\ nextCalls + errCalls > 0) =>
        closed = (IF errArg = ErrWebhookMissingSignature THEN 0 ELSE 1)

C5_Witness ==
    pc = "returned" /\ errArg = ErrWebhookMissingSignature /\ closed = 0 /\ body # << >>

\* C6: extractTimeAndHash returns a pair for every header and never panics.
C6_ExtractTotal == pc = "extract" => ~extractTimeAndHash(HeaderGet).panic

\* the header passes the comma and length checks of extractTimeAndHash
PassesChecks(h) ==
    /\ Len(h) # 0
    /\ IndexRune(h, ",") >= 2
    /\ Len(h) >= IndexRune(h, ",") + 4

HashToken(h) == Slice(h, IndexRune(h, ",") + 4, Len(h))

\* C7: a header that passes the comma and length checks but whose hash token
\* is not valid hexadecimal parses to an empty hash, and the request is
\* rejected as a missing signature.
C7_InvalidHexIsEmpty ==
    ( /\ pc \in { "extract", "returned" }
      /\ PassesChecks(HeaderGet)
      /\ DecodeString(HashToken(HeaderGet)).err # "nil" )
    => /\ Parsed.s0hashB = << >>
       /\ pc = "returned" => (errArg = ErrWebhookMissingSignature /\ nextCalls = 0)

\* C8: with the header absent, or an empty parsed timestamp or hash, the error
\* responder gets ErrWebhookMissingSignature and next is never invoked.
C8_MissingSignature ==
    ( /\ pc \notin { "new", "failed", "idle" }
      /\ ~Parsed.panic
      /\ (~hdrPresent \/ Parsed.time = << >> \/ Parsed.s0hashB = << >>) )
    => /\ nextCalls = 0
       /\ pc = "returned" => (errCalls = 1 /\ errArg = ErrWebhookMissingSignature)

C8_Witness ==
    /\ pc = "returned" /\ errCalls = 1 /\ errArg = ErrWebhookMissingSignature
    /\ hdrPresent /\ Parsed.time # << >> /\ Parsed.s0hashB = << >>

\* C9: a computed HMAC that differs from the parsed hash is answered by the
\* error responder with ErrWebhookMismatchSignature, which is not
\* ErrWebhookMissingSignature, and next is not invoked; the error responder
\* gets MismatchSignature exactly when timestamp and hash were non-empty and
\* the body was fully read.
C9_Mismatch ==
    /\ ErrWebhookMismatchSignature # ErrWebhookMissingSignature
    /\ ( /\ pc = "returned"
         /\ ~missingSignature(Parsed.time, Parsed.s0hashB)
         /\ failAt = -1
         /\ HMACSHA256(key, Parsed.time \o body) # Parsed.s0hashB )
       => (errCalls = 1 /\ errArg = ErrWebhookMismatchSignature /\ nextCalls = 0)
    /\ errCalls > 0 =>
         (errArg = ErrWebhookMismatchSignature
            <=> (tm # << >> /\ s0 # << >> /\ Drained))

C9_Witness ==
    /\ pc = "returned" /\ errArg = ErrWebhookMismatchSignature
    /\ Len(s0) = DigestLen /\ s0 # HMACSHA256(key, tm \o body)

\* C10: if a read of the body fails during the drain, the original body is
\* closed, the error responder gets the copy failure, next is never invoked
\* and no HMAC over the partially read bytes is compared.
C10_ReadFailure ==
    ( /\ pc \in { "copy", "verify", "returned" }
      /\ ~missingSignature(Parsed.time, Parsed.s0hashB)
      /\ failAt # -1 )
    => /\ nextCalls = 0
       /\ compared = 0
       /\ pc # "verify"
       /\ pc = "returned" =>
            (closed = 1 /\ errCalls = 1 /\ errArg = ErrCopyFailed /\ rBody = "orig")

C10_Witness ==
    /\ pc = "returned" /\ errArg = ErrCopyFailed /\ closed = 1
    /\ 0 < pos /\ pos < Len(body)

\* ------------------------------------------------------ C11 .. C20
\* a and b have the same length and differ in exactly one byte
OneByteAltered(a, b) ==
    /\ Len(a) = Len(b)
    /\ Cardinality({ i \in 1..Len(a) : a[i] # b[i] }) = 1

\* C11: when a request is forwarded, the request with the same header and a
\* body altered in a single byte is rejected: next is not invoked for it.
C11_TamperRejected ==
    ( /\ pc = "returned" /\ other.pc = "returned"
      /\ hdrPresent /\ other.hdrPresent /\ hdrValue = other.hdrValue
      /\ OneByteAltered(body, other.body)
      /\ nextCalls = 1 )
    => other.nextCalls = 0 /\ other.errCalls = 1

C11_Witness ==
    /\ pc = "returned" /\ other.pc = "returned"
    /\ hdrPresent /\ other.hdrPresent /\ hdrValue = other.hdrValue
    /\ OneByteAltered(body, other.body)
    /\ nextCalls = 1
    /\ other.errArg = ErrWebhookMismatchSignature

\* C12: a claimed hash whose length differs from the digest's, such as a
\* proper non-empty prefix of the right digest or the right digest with
\* bytes appended, is rejected as a mismatch.
C12_FullLengthOnly ==
    ( /\ pc = "returned"
      /\ ~Parsed.panic
      /\ ~missingSignature(Parsed.time, Parsed.s0hashB)
      /\ failAt = -1
      /\ Len(Parsed.s0hashB) # DigestLen )
    => nextCalls = 0 /\ errCalls = 1 /\ errArg = ErrWebhookMismatchSignature

C12_Witness ==
    /\ pc = "returned" /\ errArg = ErrWebhookMismatchSignature
    /\ s0 # << >> /\ Len(s0) < DigestLen
    /\ s0 = SubSeq(HMACSHA256(key, tm \o body), 1, Len(s0))

IsHexChar(c) ==
    c \in { "0", "1", "2", "3", "4", "5", "6", "7", "8", "9",
            "a", "b", "c", "d", "e", "f", "A", "B", "C", "D", "E", "F" }

\* s is a hexadecimal string: an even number of hex characters
ValidHex(s) == Len(s) % 2 = 0 /\ \A i \in 1..Len(s) : IsHexChar(s[i])

\* C13: with a Sign2HMACKey that is not a hexadecimal string, ValidateWebhook
\* returns an error and a nil middleware, and no request is ever processed.
C13_BadKeyNoMiddleware ==
    (mw # "none" /\ ~ValidHex(wo.Sign2HMACKey)) =>
        mw = "nil" /\ pc = "failed" /\ NoRequest /\ other = IdleCtx

C13_Witness == pc = "failed" /\ mw = "nil" /\ wo.Sign2HMACKey = << "6", "x" >>

IsDigit(c) == c \in { "0", "1", "2", "3", "4", "5", "6", "7", "8", "9" }

\* h has the textual form t=<decimal-timestamp>,s0=<hex-encoded-hash>
WellFormed(h) ==
    LET c == IndexRune(h, ",") IN
    /\ c >= 3
    /\ Len(h) >= c + 4
    /\ Slice(h, 0, 2) = << "t", "=" >>
    /\ \A i \in 3..c : IsDigit(h[i])
    /\ Slice(h, c, c + 4) = << ",", "s", "0", "=" >>
    /\ ValidHex(Slice(h, c + 4, Len(h)))

\* C14 as stated: a request whose header is not of the form
\* t=<decimal-timestamp>,s0=<hex-encoded-hash> is never forwarded.
C14_OnlyWellFormedForwarded ==
    nextCalls > 0 => (hdrPresent /\ WellFormed(hdrValue))

RECURSIVE ToLower(_)
ToLower(s) ==
    IF s = << >> THEN << >>
    ELSE << IF \E i \in 1..6 : upperhex[i] = s[1]
            THEN hextable[10 + (CHOOSE i \in 1..6 : upperhex[i] = s[1])]
            ELSE s[1] >> \o ToLower(Tail(s))

\* C14 amended: a request is forwarded only if its header consists of two
\* characters, a non-empty timestamp without a comma, a comma, three
\* characters and a hash token that begins with the hex digits (of either
\* case) of the HMAC of timestamp and body and has no further hex pair after
\* them; which characters stand at offsets 0..1 and after the comma, and
\* whether the timestamp is decimal, is not checked.
C14_ForwardedLayout ==
    nextCalls > 0 =>
        LET h == hdrValue
            c == IndexRune(h, ",")
            token == Slice(h, c + 4, Len(h))
        IN /\ hdrPresent
           /\ c >= 3
           /\ Len(h) >= c + 4 + 2 * DigestLen
           /\ ToLower(SubSeq(token, 1, 2 * DigestLen))
                = EncodeToString(HMACSHA256(key, Slice(h, 2, c) \o body))
           /\ ~ ( /\ Len(token) >= 2 * DigestLen + 2
                  /\ IsHexChar(token[2 * DigestLen + 1])
                  /\ IsHexChar(token[2 * DigestLen + 2]) )

C14_Witness ==
    /\ pc = "returned" /\ nextCalls = 1
    /\ Slice(hdrValue, 0, 2) = << "x", "=" >>
    /\ tm = << "x" >>
    /\ Slice(hdrValue, 3, 7) = << ",", "x", "x", "x" >>

\* C15: when extractTimeAndHash returns a non-empty timestamp ts and a
\* non-empty hash hs for a header, it returns the same pair for
\* "t=" ts ",s0=" hex(hs).
C15_RoundTrip ==
    (pc = "extract" /\ ~Parsed.panic /\ Parsed.time # << >> /\ Parsed.s0hashB # << >>) =>
        LET again == extractTimeAndHash(<< "t", "=" >> \o Parsed.time
                        \o << ",", "s", "0", "=" >> \o EncodeToString(Parsed.s0hashB))
        IN ~again.panic /\ again.time = Parsed.time /\ again.s0hashB = Parsed.s0hashB

C15_Witness ==
    /\ pc = "extract" /\ ~Parsed.panic
    /\ Parsed.time # << >> /\ Parsed.s0hashB # << >>
    /\ HeaderGet # << "t", "=" >> \o Parsed.time
                     \o << ",", "s", "0", "=" >> \o EncodeToString(Parsed.s0hashB)

\* C16: extractTimeAndHash returns an empty timestamp and an empty hash for
\* every header that is empty, has no comma, has its first comma at offset
\* 0, or is shorter than the first comma's offset plus 4.
C16_EmptyResult ==
    ( /\ pc = "extract"
      /\ \/ Len(HeaderGet) = 0
         \/ IndexRune(HeaderGet, ",") < 0
         \/ IndexRune(HeaderGet, ",") = 0
         \/ Len(HeaderGet) < IndexRune(HeaderGet, ",") + 4 )
    => (~Parsed.panic /\ Parsed.time = << >> /\ Parsed.s0hashB = << >>)

\* h with the characters at offsets 0..1 and c+1..c+3 replaced by "x"
Blanked(h) ==
    LET c == IndexRune(h, ",") IN
    [ i \in 1..Len(h) |-> IF i \in { 1, 2, c + 2, c + 3, c + 4 } THEN "x" ELSE h[i] ]

\* C17: for a header whose first comma is at offset c >= 2, of length at
\* least c+4 and with a valid hex suffix from c+4, the timestamp is the
\* characters [2, c) and the hash the decoding of the suffix, whatever
\* stands at offsets 0..1 and c+1..c+3; with length exactly c+4 the hash
\* is empty.
C17_FixedOffsets ==
    ( /\ pc = "extract"
      /\ PassesChecks(HeaderGet)
      /\ ValidHex(HashToken(HeaderGet)) )
    => LET h == HeaderGet
           c == IndexRune(h, ",")
       IN /\ ~Parsed.panic
          /\ Parsed.time = SubSeq(h, 3, c)
          /\ EncodeToString(Parsed.s0hashB) = ToLower(SubSeq(h, c + 5, Len(h)))
          /\ Len(h) = c + 4 => Parsed.s0hashB = << >>
          /\ extractTimeAndHash(Blanked(h)) = Parsed

C17_Witness ==
    /\ pc = "extract"
    /\ PassesChecks(HeaderGet) /\ ValidHex(HashToken(HeaderGet))
    /\ Parsed.time = << "1", "2" >> /\ Len(Parsed.s0hashB) = DigestLen
    /\ Slice(HeaderGet, 0, 2) = << "x", "=" >>

\* what the middleware does with a request processed on its own
Alone(k, present, h, b, f) ==
    LET r == extractTimeAndHash(IF present THEN h ELSE << >>) IN
    IF r.panic THEN [what |-> "panic", err |-> "none", seen |-> << >>]
    ELSE IF r.time = << >> \/ Len(r.s0hashB) = 0
    THEN [what |-> "error", err |-> ErrWebhookMissingSignature,
          seen |-> IF f = -1 THEN b ELSE SubSeq(b, 1, f)]
    ELSE IF f # -1
    THEN [what |-> "error", err |-> ErrCopyFailed, seen |-> << >>]
    ELSE IF HMACSHA256(k, r.time \o b) = r.s0hashB
    THEN [what |-> "next", err |-> "none", seen |-> b]
    ELSE [what |-> "error", err |-> ErrWebhookMismatchSignature, seen |-> b]

\* the terminal outcome recorded in the context c
Outcome(c) ==
    [ what |-> IF c.pc = "panicked" THEN "panic"
               ELSE IF c.nextCalls = 1 /\ c.errCalls = 0 THEN "next"
               ELSE IF c.nextCalls = 0 /\ c.errCalls = 1 THEN "error"
               ELSE "other",
      err |-> c.errArg,
      seen |-> c.seen ]

AsAlone(c) ==
    c.pc \in { "returned", "panicked" } =>
        Outcome(c) = Alone(key, c.hdrPresent, c.hdrValue, c.body, c.failAt)

\* C18: with two requests in flight, under every interleaving each request
\* ends with the outcome and downstream body it has when processed alone,
\* and the shared key is the one decoded at construction.
C18_Independent ==
    mw = "ok" =>
        /\ AsAlone(Ctx)
        /\ AsAlone(other)
        /\ key = DecodeString(wo.Sign2HMACKey).bytes

C18_Witness ==
    /\ pc = "returned" /\ nextCalls = 1 /\ seen = body
    /\ other.pc = "copy" /\ other.pos > 0 /\ other.pos < Len(other.body)
    /\ other.hdrValue # hdrValue

\* C19: a request that was forwarded is forwarded whenever the identical
\* header and body are delivered again, whatever the timestamp: nothing is
\* remembered of an earlier request and no clock is read.
C19_NoReplayCheck ==
    ( /\ pc = "returned" /\ other.pc = "returned"
      /\ other.nextCalls = 1
      /\ hdrPresent = other.hdrPresent /\ hdrValue = other.hdrValue
      /\ body = other.body /\ failAt = -1 )
    => nextCalls = 1 /\ errCalls = 0

C19_Witness ==
    /\ pc = "returned" /\ other.pc = "returned"
    /\ other.nextCalls = 1 /\ nextCalls = 1
    /\ hdrValue = other.hdrValue /\ body = other.body

\* C20: with a nil WebhookOption.ErrorHandler every rejected request is
\* answered by the default responder with status 500 and the error's text
\* (which http.Error ends with a newline) as body; with an ErrorHandler set
\* the default responder is never used.
C20_DefaultResponder ==
    /\ errCalls > 0 =>
         /\ wo.ErrorHandler = "nil" =>
              resp = [by |-> "default", status |-> 500, body |-> << errArg, "\n" >>]
         /\ wo.ErrorHandler # "nil" => resp.by = "custom"
    /\ (mw = "ok" /\ wo.ErrorHandler # "nil") => resp.by # "default"

C20_Witness ==
    /\ pc = "returned" /\ wo.ErrorHandler = "nil"
    /\ errArg = ErrCopyFailed /\ resp.status = 500 /\ resp.body[1] = ErrCopyFailed

\* ------------------------------------------------------ C26 .. C29
\* C26: once the drain has ended without error the original body is closed
\* and r.Body is the buffered copy before the HMAC is compared, so on a
\* mismatch the error responder gets a request whose body is the complete
\* copy of the original bytes.
C26_ReplacedBeforeCompare ==
    /\ pc = "verify" => (closed = 1 /\ rBody = "buf" /\ buf = body /\ compared = 0)
    /\ (pc = "returned" /\ errArg = ErrWebhookMismatchSignature) =>
         (closed = 1 /\ rBody = "buf" /\ seen = body)

C26_Witness ==
    /\ pc = "returned" /\ errArg = ErrWebhookMismatchSignature
    /\ Len(body) = MaxBody /\ seen = body /\ rBody = "buf"

\* both requests are over and carry the same claimed hash and the same
\* bytes of timestamp followed by body, and neither body read fails
SameConcatenation ==
    /\ pc = "returned" /\ other.pc = "returned"
    /\ hdrPresent /\ other.hdrPresent
    /\ failAt = -1 /\ other.failAt = -1
    /\ ~Parsed.panic /\ ~extractTimeAndHash(other.hdrValue).panic
    /\ Parsed.s0hashB = extractTimeAndHash(other.hdrValue).s0hashB
    /\ Parsed.time \o body = extractTimeAndHash(other.hdrValue).time \o other.body

\* C27 as stated: two requests with the same claimed hash and the same
\* bytes of timestamp followed by body always receive the same decision.
C27_ConcatenationOnly ==
    SameConcatenation => (nextCalls = other.nextCalls)

\* C27 amended: the same, for two requests whose timestamps are both
\* non-empty; a request with an empty timestamp is rejected as a missing
\* signature whatever its body and hash are.
C27_ConcatenationNonEmpty ==
    /\ ( /\ SameConcatenation
         /\ Parsed.time # << >>
         /\ extractTimeAndHash(other.hdrValue).time # << >> )
       => (nextCalls = other.nextCalls /\ errArg = other.errArg)
    /\ (pc = "returned" /\ hdrPresent /\ ~Parsed.panic /\ Parsed.time = << >>)
       => (nextCalls = 0 /\ errArg = ErrWebhookMissingSignature)

C27_Witness ==
    /\ SameConcatenation
    /\ tm = << "1", "2" >> /\ body = << "3" >>
    /\ other.tm = << "1" >> /\ other.body = << "2", "3" >>
    /\ nextCalls = 1 /\ other.nextCalls = 1

\* C28: ValidateWebhook fails exactly when Sign2HMACKey is not valid hex; the
\* empty string gives a working middleware with a zero-length key, which
\* forwards a request signed with the empty key.
C28_FailsIffNotHex ==
    /\ mw # "none" => (mw = "nil" <=> ~ValidHex(wo.Sign2HMACKey))
    /\ (mw # "none" /\ wo.Sign2HMACKey = << >>) => (mw = "ok" /\ key = << >>)
    /\ ( /\ pc = "returned" /\ wo.Sign2HMACKey = << >>
         /\ hdrPresent /\ failAt = -1
         /\ \E ts \in Timestamps \ { << >> } : hdrValue = SignedHeader(<< >>, ts, body) )
       => (nextCalls = 1 /\ errCalls = 0)

C28_Witness ==
    /\ pc = "returned" /\ wo.Sign2HMACKey = << >> /\ mw = "ok"
    /\ hdrValue = SignedHeader(<< >>, << "1" >>, body) /\ body # << >>
    /\ nextCalls = 1

\* C29: on the missing-signature path the request body is neither read,
\* closed nor replaced before the error responder is invoked, which reads
\* from the original body all it delivers; on the body-read-failure path
\* it is closed but not replaced, and the responder reads nothing from it.
C29_BodyUntouched ==
    /\ (pc = "returned" /\ errArg = ErrWebhookMissingSignature) =>
         /\ pos = 0 /\ closed = 0 /\ rBody = "orig" /\ buf = << >>
         /\ seen = SubSeq(body, 1, IF failAt = -1 THEN Len(body) ELSE failAt)
    /\ (pc = "returned" /\ errArg = ErrCopyFailed) =>
         (closed = 1 /\ rBody = "orig" /\ seen = << >>)

C29_Witness ==
    /\ pc = "returned" /\ errArg = ErrCopyFailed
    /\ pos > 0 /\ closed = 1 /\ rBody = "orig"

\* ======================================================== the API client
\* Client (client.go).  Text is a sequence of one-character strings, bytes
\* are integers 0..255.

\* the printable ASCII characters in code order, from the space (32) to "~"
\* (126); the backslash (92) and the grave accent (96) occur in no modelled
\* text and their places hold the empty string
ASCII ==
    << " ", "!", "\"", "#", "$", "%", "&", "'", "(", ")", "*", "+", ",",
       "-", ".", "/", "0", "1", "2", "3", "4", "5", "6", "7", "8", "9",
       ":", ";", "<", "=", ">", "?", "@", "A", "B", "C", "D", "E", "F",
       "G", "H", "I", "J", "K", "L", "M", "N", "O", "P", "Q", "R", "S",
       "T", "U", "V", "W", "X", "Y", "Z", "[", "", "]", "^", "_", "",
       "a", "b", "c", "d", "e", "f", "g", "h", "i", "j", "k", "l", "m",
       "n", "o", "p", "q", "r", "s", "t", "u", "v", "w", "x", "y", "z",
       "{", "|", "}", "~" >>

\* the byte of every character of the table
ByteTable ==
    [c \in { ASCII[i] : i \in 1..Len(ASCII) } |->
       31 + (CHOOSE i \in 1..Len(ASCII) : ASCII[i] = c)]

\* []byte(s): the byte of an ASCII character
ByteOf(c) == ByteTable[c]

\* []byte(s)
Bytes(s) == [i \in 1..Len(s) |-> ByteOf(s[i])]

\* ---------------------------------------------------------------- hash/fnv
\* A 64-bit hash value is kept as 8 bytes, least significant first.

\* offset64 = 14695981039346656037 = 0xcbf29ce484222325
offset64 == << 37, 35, 34, 132, 228, 156, 242, 203 >>

\* prime64 = 1099511628211 = 2^40 + 435
prime64low == 435
prime64shift == 5

RECURSIVE XorBits(_, _, _)
\* a ^ b on n-bit values
XorBits(a, b, n) ==
    IF n = 0 THEN 0
    ELSE ((a + b) % 2) + 2 * XorBits(a \div 2, b \div 2, n - 1)

RECURSIVE MulPrime64(_, _, _)
\* bytes i..8 of h * prime64 modulo 2^64, with the carry into byte i
MulPrime64(h, i, carry) ==
    IF i > 8 THEN << >>
    ELSE LET v == h[i] * prime64low
                  + (IF i > prime64shift THEN h[i - prime64shift] ELSE 0)
                  + carry
         IN << v % 256 >> \o MulPrime64(h, i + 1, v \div 256)

RECURSIVE fnvRange(_, _, _, _)
\* the loop of Write over data[lo..hi]: hash ^= byte; hash *= prime64.  The
\* range is halved and each half's result is bound to a variable, which has
\* the hash computed once per byte.
fnvRange(h, data, lo, hi) ==
    IF lo > hi THEN h
    ELSE IF lo = hi
    THEN MulPrime64([h EXCEPT ![1] = XorBits(h[1], data[lo], 8)], 1, 0)
    ELSE LET mid == (lo + hi) \div 2
         IN CHOOSE r \in { fnvRange(x, data, mid + 1, hi) :
                             x \in { fnvRange(h, data, lo, mid) } } : TRUE

\* sum64a.Write
fnvWrite(h, data) ==
    CHOOSE r \in { fnvRange(x, d, 1, Len(d)) : x \in { h }, d \in { data } } : TRUE

\* fnv.New64a()
fnvNew64a == offset64

\* sum64a.Sum(nil): the hash, most significant byte first
fnvSum(h) == Reverse(h)

\* ------------------------------------------------------------ encoding/json
\* A JSON value is a record [t, s, m]: t is its kind ("str", "num", "bool",
\* "null", "obj", "arr"), s the characters of a string, the digits of a
\* number or the text of a literal, m the members [k, v] of an object in
\* their order or the elements of an array (with k empty).
jStr(s) == [t |-> "str", s |-> s, m |-> << >>]
jNum(digits) == [t |-> "num", s |-> digits, m |-> << >>]
jBool(b) == [t |-> "bool", m |-> << >>,
             s |-> IF b THEN << "t", "r", "u", "e" >> ELSE << "f", "a", "l", "s", "e" >>]
jNull == [t |-> "null", s |-> << "n", "u", "l", "l" >>, m |-> << >>]
jObj(members) == [t |-> "obj", s |-> << >>, m |-> members]
jArr(elements) == [t |-> "arr", s |-> << >>, m |-> elements]

RECURSIVE encodeValue(_)
RECURSIVE encodeMembers(_, _, _)
\* the members or elements m[i..] separated by commas
encodeMembers(m, i, withKeys) ==
    IF i > Len(m) THEN << >>
    ELSE (IF i > 1 THEN << "," >> ELSE << >>)
         \o (IF withKeys THEN << "\"" >> \o m[i].k \o << "\"", ":" >> ELSE << >>)
         \o encodeValue(m[i].v)
         \o encodeMembers(m, i + 1, withKeys)

\* the encoder's output for a value: compact, strings quoted (the modelled
\* strings hold no character that is escaped)
encodeValue(v) ==
    CASE v.t = "str" -> << "\"" >> \o v.s \o << "\"" >>
      [] v.t = "obj" -> << "{" >> \o encodeMembers(v.m, 1, TRUE) \o << "}" >>
      [] v.t = "arr" -> << "[" >> \o encodeMembers(v.m, 1, FALSE) \o << "]" >>
      [] OTHER -> v.s

\* a struct field: left out when it is tagged omitempty and holds its zero value
Field(name, v, omitempty, isZero) ==
    IF omitempty /\ isZero THEN << >> ELSE << [k |-> name, v |-> v] >>

\* ------------------------------------------------- numbers through float64
DigitVal(c) == (CHOOSE i \in 1..10 : hextable[i] = c) - 1

RECURSIVE LessDigits(_, _, _)
\* a < b for digit strings of one length, compared from position i
LessDigits(a, b, i) ==
    IF i > Len(a) THEN FALSE
    ELSE IF a[i] # b[i] THEN DigitVal(a[i]) < DigitVal(b[i])
    ELSE LessDigits(a, b, i + 1)

\* 2^53 = 9007199254740992: below it every integer is a float64
TwoTo53 ==
    << "9", "0", "0", "7", "1", "9", "9", "2", "5", "4", "7", "4", "0",
       "9", "9", "2" >>

RECURSIVE SuccDigits(_)
\* n + 1 on a decimal digit string
SuccDigits(d) ==
    IF d = << >> THEN << "1" >>
    ELSE IF d[Len(d)] = "9" THEN Append(SuccDigits(SubSeq(d, 1, Len(d) - 1)), "0")
    ELSE Append(SubSeq(d, 1, Len(d) - 1), hextable[DigitVal(d[Len(d)]) + 2])

\* an integer literal of at most 16 digits decoded into an interface{} (a
\* float64, strconv.ParseFloat) and encoded again (strconv.AppendFloat with
\* 'f', -1): below 2^53 the digits come back; from 2^53 to 10^16 the
\* float64s are the even integers, an odd one is rounded to the neighbour
\* that is a multiple of 4 (ties to the even mantissa) and printed exactly
float64Text(d) ==
    LET n == Len(d)
        small == n < 16 \/ (n = 16 /\ LessDigits(d, TwoTo53, 1))
        last == DigitVal(d[n])
        below == [d EXCEPT ![n] = hextable[last]]
        tens == DigitVal(d[n - 1])
    IN IF small \/ last % 2 = 0 THEN d
       ELSE IF (10 * tens + last - 1) % 4 = 0 THEN below
       ELSE SuccDigits(d)

\* ------------------------------------------------------- reading JSON text
NoValue == [ok |-> FALSE, v |-> jNull, next |-> 0]

RECURSIVE SkipSpace(_, _)
\* the first position from i on that holds no space
SkipSpace(s, i) ==
    IF i <= Len(s) /\ s[i] = " " THEN SkipSpace(s, i + 1) ELSE i

RECURSIVE DigitsEnd(_, _)
\* the last position of the run of digits starting at i
DigitsEnd(s, i) ==
    IF i < Len(s) /\ IsDigit(s[i + 1]) THEN DigitsEnd(s, i + 1) ELSE i

HasAt(s, i, word) == i + Len(word) - 1 <= Len(s) /\ SubSeq(s, i, i + Len(word) - 1) = word

RECURSIVE ParseValue(_, _)
RECURSIVE ParseMembers(_, _, _, _)
RECURSIVE ParseElements(_, _, _, _)

\* the scanner over one value starting at or after position i.  A number is
\* a run of digits, a zero standing alone (the modelled texts hold no sign,
\* fraction or exponent); the value ends where the scanner would report its
\* end, and what follows is judged by the caller
ParseValue(s, i) ==
    LET j == SkipSpace(s, i) IN
    IF j > Len(s) THEN NoValue
    ELSE IF s[j] = "{" THEN ParseMembers(s, SkipSpace(s, j + 1), << >>, TRUE)
    ELSE IF s[j] = "[" THEN ParseElements(s, SkipSpace(s, j + 1), << >>, TRUE)
    ELSE IF s[j] = "\""
    THEN LET q == IndexFrom(s, "\"", j + 1) IN
         IF q = -1 THEN NoValue
         ELSE [ok |-> TRUE, v |-> jStr(SubSeq(s, j + 1, q)), next |-> q + 2]
    ELSE IF IsDigit(s[j])
    THEN LET e == IF s[j] = "0" THEN j ELSE DigitsEnd(s, j) IN
         [ok |-> TRUE, v |-> jNum(SubSeq(s, j, e)), next |-> e + 1]
    ELSE IF HasAt(s, j, jBool(TRUE).s)
    THEN [ok |-> TRUE, v |-> jBool(TRUE), next |-> j + 4]
    ELSE IF HasAt(s, j, jBool(FALSE).s)
    THEN [ok |-> TRUE, v |-> jBool(FALSE), next |-> j + 5]
    ELSE IF HasAt(s, j, jNull.s)
    THEN [ok |-> TRUE, v |-> jNull, next |-> j + 4]
    ELSE NoValue

\* an object from position j on, after its brace or after a comma
ParseMembers(s, j, acc, first) ==
    IF j > Len(s) THEN NoValue
    ELSE IF s[j] = "}" /\ first THEN [ok |-> TRUE, v |-> jObj(acc), next |-> j + 1]
    ELSE IF s[j] # "\"" THEN NoValue
    ELSE LET q == IndexFrom(s, "\"", j + 1)
             c == SkipSpace(s, q + 2)
         IN IF q = -1 \/ c > Len(s) \/ s[c] # ":" THEN NoValue
            ELSE CHOOSE out \in
                   { LET e == SkipSpace(s, r.next)
                         acc2 == Append(acc, [k |-> SubSeq(s, j + 1, q), v |-> r.v])
                     IN IF ~r.ok \/ e > Len(s) THEN NoValue
                        ELSE IF s[e] = "}"
                        THEN [ok |-> TRUE, v |-> jObj(acc2), next |-> e + 1]
                        ELSE IF s[e] = ","
                        THEN ParseMembers(s, SkipSpace(s, e + 1), acc2, FALSE)
                        ELSE NoValue :
                     r \in { ParseValue(s, c + 1) } } : TRUE

\* an array from position j on, after its bracket or after a comma
ParseElements(s, j, acc, first) ==
    IF j > Len(s) THEN NoValue
    ELSE IF s[j] = "]" /\ first THEN [ok |-> TRUE, v |-> jArr(acc), next |-> j + 1]
    ELSE CHOOSE out \in
           { LET e == SkipSpace(s, r.next)
                 acc2 == Append(acc, [k |-> << >>, v |-> r.v])
             IN IF ~r.ok \/ e > Len(s) THEN NoValue
                ELSE IF s[e] = "]"
                THEN [ok |-> TRUE, v |-> jArr(acc2), next |-> e + 1]
                ELSE IF s[e] = ","
                THEN ParseElements(s, SkipSpace(s, e + 1), acc2, FALSE)
                ELSE NoValue :
             r \in { ParseValue(s, j) } } : TRUE

\* Decoder.Decode's reading of the next value of the stream s: io.EOF when
\* nothing but spaces is left, a syntax error for text that is no value; the
\* scanner reports the end of a top-level value at the byte after it, so
\* whatever follows a complete value is left unread and is no error
readValue(s) ==
    CHOOSE out \in
      { IF SkipSpace(s, 1) > Len(s) THEN [err |-> "EOF", v |-> jNull]
        ELSE IF ~r.ok THEN [err |-> "syntax", v |-> jNull]
        ELSE [err |-> "nil", v |-> r.v] :
        r \in { ParseValue(s, 1) } } : TRUE

\* byte order of two different texts, as sort.Strings orders map keys
RECURSIVE LessText(_, _, _)
LessText(a, b, i) ==
    IF i > Len(a) THEN i <= Len(b)
    ELSE IF i > Len(b) THEN FALSE
    ELSE IF a[i] # b[i] THEN ByteOf(a[i]) < ByteOf(b[i])
    ELSE LessText(a, b, i + 1)

RECURSIVE SortedMembers(_)
\* the encoder's walk over a map[string]interface{}: its keys in sorted order
SortedMembers(f) ==
    IF DOMAIN f = {} THEN << >>
    ELSE LET k == CHOOSE x \in DOMAIN f : \A y \in DOMAIN f \ { x } : LessText(x, y, 1)
         IN << [k |-> k, v |-> f[k]] >>
            \o SortedMembers([y \in DOMAIN f \ { k } |-> f[y]])

RECURSIVE toInterface(_)
RECURSIVE toInterfaceAll(_, _)
toInterfaceAll(m, i) ==
    IF i > Len(m) THEN << >>
    ELSE << [k |-> m[i].k, v |-> toInterface(m[i].v)] >> \o toInterfaceAll(m, i + 1)

\* the Go value json.Unmarshal stores in an interface{}, written as the JSON
\* value it encodes to: a number is a float64, an object a map (one entry
\* per key, the last member winning, encoded in key order), an array a slice
toInterface(v) ==
    CASE v.t = "num" -> jNum(float64Text(v.s))
      [] v.t = "arr" -> jArr(toInterfaceAll(v.m, 1))
      [] v.t = "obj" ->
           LET keys == { v.m[i].k : i \in 1..Len(v.m) }
               lastOf(k) == CHOOSE i \in 1..Len(v.m) :
                               /\ v.m[i].k = k
                               /\ \A j \in (i + 1)..Len(v.m) : v.m[j].k # k
           IN jObj(SortedMembers([k \in keys |-> toInterface(v.m[lastOf(k)].v)]))
      [] OTHER -> v

\* json.Unmarshal(jsonBytes, &postDataMap) for the encoding of a struct,
\* which is one well-formed object with nothing after it
unmarshalMap(jsonBytes) ==
    CHOOSE out \in
      { [k \in { o.m[i].k : i \in 1..Len(o.m) } |->
           (CHOOSE mem \in { o.m[i] : i \in 1..Len(o.m) } : mem.k = k).v] :
        o \in { toInterface(readValue(jsonBytes).v) } } : TRUE

\* ------------------------------------------------------------ request types
\* dto: the request structs passed to the modelled API methods.  An int is
\* its decimal digits; CustomFields is a function from key to value, the
\* empty function for a nil or empty map.
Zero == << "0" >>

RECURSIVE structMembers(_)
\* json.Marshal(postData): the tagged fields in declaration order.  The
\* pointer and slice fields of the requests (Customer, Card, Theme, ...) are
\* nil, hence left out; a time.Time is held as the text it encodes to; a nil
\* Sales slice encodes to null.
structMembers(p) ==
    CASE p.type = "RequestInitialize" ->
              Field(<< "c", "u", "r", "r", "e", "n", "c", "y" >>, jStr(p.Currency), FALSE, FALSE)
           \o Field(<< "r", "e", "f", "n", "o" >>, jStr(p.RefNo), FALSE, FALSE)
           \o Field(<< "r", "e", "f", "n", "o", "2" >>, jStr(p.RefNo2), TRUE, p.RefNo2 = << >>)
           \o Field(<< "a", "u", "t", "o", "S", "e", "t", "t", "l", "e" >>, jBool(p.AutoSettle), TRUE, ~p.AutoSettle)
           \o Field(<< "a", "m", "o", "u", "n", "t" >>, jNum(p.Amount), TRUE, p.Amount = Zero)
           \o Field(<< "l", "a", "n", "g", "u", "a", "g", "e" >>, jStr(p.Language), TRUE, p.Language = << >>)
      [] p.type = "RequestSecureFieldsUpdate" ->
              Field(<< "c", "u", "r", "r", "e", "n", "c", "y" >>, jStr(p.Currency), FALSE, FALSE)
           \o Field(<< "a", "m", "o", "u", "n", "t" >>, jNum(p.Amount), TRUE, p.Amount = Zero)
      [] p.type = "RequestSecureFieldsInit" ->
              Field(<< "c", "u", "r", "r", "e", "n", "c", "y" >>, jStr(p.Currency), FALSE, FALSE)
           \o Field(<< "a", "m", "o", "u", "n", "t" >>, jNum(p.Amount), TRUE, p.Amount = Zero)
           \o Field(<< "r", "e", "t", "u", "r", "n", "U", "r", "l" >>, jStr(p.ReturnUrl), FALSE, FALSE)
      [] p.type = "RequestAuthorize" ->
              Field(<< "a", "m", "o", "u", "n", "t" >>, jNum(p.Amount), TRUE, p.Amount = Zero)
           \o Field(<< "c", "u", "r", "r", "e", "n", "c", "y" >>, jStr(p.Currency), TRUE, p.Currency = << >>)
           \o Field(<< "r", "e", "f", "n", "o" >>, jStr(p.RefNo), TRUE, p.RefNo = << >>)
           \o Field(<< "r", "e", "f", "n", "o", "2" >>, jStr(p.RefNo2), TRUE, p.RefNo2 = << >>)
           \o Field(<< "a", "u", "t", "o", "S", "e", "t", "t", "l", "e" >>, jBool(p.AutoSettle), TRUE, ~p.AutoSettle)
      [] p.type = "RequestAuthorizeTransaction" ->
              Field(<< "r", "e", "f", "n", "o" >>, jStr(p.RefNo), TRUE, p.RefNo = << >>)
           \o Field(<< "a", "m", "o", "u", "n", "t" >>, jNum(p.Amount), TRUE, p.Amount = Zero)
           \o Field(<< "a", "u", "t", "o", "S", "e", "t", "t", "l", "e" >>, jBool(p.AutoSettle), TRUE, ~p.AutoSettle)
           \o Field(<< "r", "e", "f", "n", "o", "2" >>, jStr(p.RefNo2), TRUE, p.RefNo2 = << >>)
      [] p.type = "RequestValidateAlias" ->
              Field(<< "c", "u", "r", "r", "e", "n", "c", "y" >>, jStr(p.Currency), TRUE, p.Currency = << >>)
           \o Field(<< "r", "e", "f", "n", "o" >>, jStr(p.RefNo), TRUE, p.RefNo = << >>)
           \o Field(<< "r", "e", "f", "n", "o", "2" >>, jStr(p.RefNo2), TRUE, p.RefNo2 = << >>)
      [] p.type \in { "RequestSettle", "RequestCredit" } ->
              Field(<< "a", "m", "o", "u", "n", "t" >>, jNum(p.Amount), TRUE, p.Amount = Zero)
           \o Field(<< "c", "u", "r", "r", "e", "n", "c", "y" >>, jStr(p.Currency), TRUE, p.Currency = << >>)
           \o Field(<< "r", "e", "f", "n", "o" >>, jStr(p.RefNo), TRUE, p.RefNo = << >>)
           \o Field(<< "r", "e", "f", "n", "o", "2" >>, jStr(p.RefNo2), TRUE, p.RefNo2 = << >>)
      [] p.type = "RequestCreditAuthorize" ->
              Field(<< "c", "u", "r", "r", "e", "n", "c", "y" >>, jStr(p.Currency), TRUE, p.Currency = << >>)
           \o Field(<< "r", "e", "f", "n", "o" >>, jStr(p.RefNo), TRUE, p.RefNo = << >>)
           \o Field(<< "a", "m", "o", "u", "n", "t" >>, jNum(p.Amount), TRUE, p.Amount = Zero)
           \o Field(<< "a", "u", "t", "o", "S", "e", "t", "t", "l", "e" >>, jBool(p.AutoSettle), TRUE, ~p.AutoSettle)
           \o Field(<< "r", "e", "f", "n", "o", "2" >>, jStr(p.Refno2), TRUE, p.Refno2 = << >>)
      [] p.type = "struct{LegacyAlias}" ->
              Field(<< "l", "e", "g", "a", "c", "y", "A", "l", "i", "a",
                       "s" >>, jStr(p.LegacyAlias), FALSE, FALSE)
      [] p.type = "RequestReconciliationsSale" ->
              Field(<< "d", "a", "t", "e" >>, jStr(p.Date), FALSE, FALSE)
           \o Field(<< "t", "r", "a", "n", "s", "a", "c", "t", "i", "o",
                       "n", "I", "d" >>, jStr(p.TransactionID), FALSE, FALSE)
           \o Field(<< "c", "u", "r", "r", "e", "n", "c", "y" >>, jStr(p.Currency), FALSE, FALSE)
           \o Field(<< "a", "m", "o", "u", "n", "t" >>, jNum(p.Amount), FALSE, FALSE)
           \o Field(<< "t", "y", "p", "e" >>, jStr(p.Type), FALSE, FALSE)
           \o Field(<< "r", "e", "f", "n", "o" >>, jStr(p.Refno), FALSE, FALSE)
      [] p.type = "RequestReconciliationsSales" ->
              Field(<< "s", "a", "l", "e", "s" >>,
                    IF p.Sales = << >> THEN jNull
                    ELSE jArr([i \in 1..Len(p.Sales) |->
                                 [k |-> << >>, v |-> jObj(structMembers(p.Sales[i]))]]),
                    FALSE, FALSE)
      [] p.type = "struct{Refno}" ->
              Field(<< "r", "e", "f", "n", "o" >>, jStr(p.Refno), FALSE, FALSE)

jsonMarshal(p) == encodeValue(jObj(structMembers(p)))

\* postData.(customFieldsGetter): the types embedding CustomFields
isCustomFieldsGetter(p) ==
    p.type \in { "RequestInitialize", "RequestSecureFieldsUpdate", "RequestSecureFieldsInit",
                 "RequestAuthorize", "RequestAuthorizeTransaction", "RequestValidateAlias",
                 "RequestSettle", "RequestCredit", "RequestCreditAuthorize" }

\* MarshalJSON (client.go 173-200); none of its three errors can occur for
\* the modelled values
MarshalJSON(postData) ==
    CHOOSE out \in
      { IF isCustomFieldsGetter(postData)
        THEN LET custFields == postData.CustomFields IN
             IF DOMAIN custFields = {} THEN jsonBytes
             ELSE CHOOSE merged \in
                    { encodeValue(jObj(SortedMembers(
                        [k \in DOMAIN postDataMap \cup DOMAIN custFields |->
                           IF k \in DOMAIN custFields THEN custFields[k]
                           ELSE postDataMap[k]]))) :
                      postDataMap \in { unmarshalMap(jsonBytes) } } : TRUE
        ELSE jsonBytes :
        jsonBytes \in { jsonMarshal(postData) } } : TRUE

\* ------------------------------------------------------------ client.go
endpointURLSandBox ==
    << "h", "t", "t", "p", "s", ":", "/", "/", "a", "p", "i", ".", "s",
       "a", "n", "d", "b", "o", "x", ".", "d", "a", "t", "a", "t", "r",
       "a", "n", "s", ".", "c", "o", "m" >>
endpointURLProduction ==
    << "h", "t", "t", "p", "s", ":", "/", "/", "a", "p", "i", ".", "d",
       "a", "t", "a", "t", "r", "a", "n", "s", ".", "c", "o", "m" >>
pathBase == << "/", "v", "1", "/", "t", "r", "a", "n", "s", "a", "c", "t", "i",
       "o", "n", "s" >>
pathInitialize == pathBase
\* fmt.Sprintf of pathStatus, pathCancel, pathSecureFieldsUpdate, pathAliasesDelete
pathStatus(id) == pathBase \o << "/" >> \o id
pathCancel(id) == pathBase \o << "/" >> \o id \o << "/", "c", "a", "n", "c", "e", "l" >>
pathSecureFieldsUpdate(id) == pathBase \o << "/", "s", "e", "c", "u", "r", "e", "F", "i", "e", "l", "d", "s",
       "/" >> \o id
pathAliasesDelete(id) == pathBase \o << "/", "a", "l", "i", "a", "s", "e", "s", "/" >> \o id
pathCredit(id) == pathBase \o << "/" >> \o id \o << "/", "c", "r", "e", "d", "i", "t" >>
pathCreditAuthorize == pathBase \o << "/", "c", "r", "e", "d", "i", "t" >>
pathSettle(id) == pathBase \o << "/" >> \o id \o << "/", "s", "e", "t", "t", "l", "e" >>
pathValidate == pathBase \o << "/", "v", "a", "l", "i", "d", "a", "t", "e" >>
pathAuthorizeTransaction(id) == pathBase \o << "/" >> \o id \o << "/", "a", "u", "t", "h", "o", "r", "i", "z", "e" >>
pathAuthorize == pathBase \o << "/", "a", "u", "t", "h", "o", "r", "i", "z", "e" >>
pathSecureFields == pathBase \o << "/", "s", "e", "c", "u", "r", "e", "F", "i", "e", "l", "d", "s" >>
pathAliases == pathBase \o << "/", "a", "l", "i", "a", "s", "e", "s" >>
pathReconciliationsSales ==
    << "/", "v", "1", "/", "r", "e", "c", "o", "n", "c", "i", "l", "i",
       "a", "t", "i", "o", "n", "s", "/", "s", "a", "l", "e", "s" >>
pathReconciliationsSalesBulk ==
    << "/", "v", "1", "/", "r", "e", "c", "o", "n", "c", "i", "l", "i",
       "a", "t", "i", "o", "n", "s", "/", "s", "a", "l", "e", "s", "/",
       "b", "u", "l", "k" >>

\* the zero OptionMerchant a map lookup gives for a missing InternalID
ZeroMerchant ==
    [InternalID |-> << >>, EnableProduction |-> FALSE, EnableIdempotency |-> FALSE,
     DisableRawJSONBody |-> FALSE, MerchantID |-> << >>, Password |-> << >>]

\* c.merchants[internalID]
Merchant(merchants, internalID) ==
    IF internalID \in DOMAIN merchants THEN merchants[internalID] ELSE ZeroMerchant

\* strings.EqualFold, by which the decoder matches a key to a field name
Lower(c) == LET b == ByteOf(c) IN IF b >= 65 /\ b <= 90 THEN ASCII[b + 1] ELSE c
EqualFold(a, b) == Len(a) = Len(b) /\ \A i \in 1..Len(a) : Lower(a[i]) = Lower(b[i])

\* error.go: ErrorResponse{HTTPStatusCode, ErrorDetail{Code, Message}}
ZeroErrorResponse ==
    [HTTPStatusCode |-> 0, Code |-> << >>, Message |-> << >>, err |-> "nil"]

RECURSIVE decodeErrorDetail(_, _, _)
\* the members of the "error" object into ErrorDetail; a value of the wrong
\* kind is skipped and reported as an UnmarshalTypeError at the end
decodeErrorDetail(m, i, acc) ==
    IF i > Len(m) THEN acc
    ELSE LET isCode == EqualFold(m[i].k, << "c", "o", "d", "e" >>)
             isMessage == EqualFold(m[i].k, << "m", "e", "s", "s", "a", "g", "e" >>)
             v == m[i].v
         IN IF ~(isCode \/ isMessage) \/ v.t = "null"
            THEN decodeErrorDetail(m, i + 1, acc)
            ELSE IF v.t # "str"
            THEN decodeErrorDetail(m, i + 1, [acc EXCEPT !.err = "type"])
            ELSE IF isCode
            THEN decodeErrorDetail(m, i + 1, [acc EXCEPT !.Code = v.s])
            ELSE decodeErrorDetail(m, i + 1, [acc EXCEPT !.Message = v.s])

RECURSIVE toInt(_)
\* a short number as an int
toInt(digits) ==
    IF digits = << >> THEN 0
    ELSE 10 * toInt(SubSeq(digits, 1, Len(digits) - 1)) + DigitVal(digits[Len(digits)])

RECURSIVE decodeErrorMembers(_, _, _)
decodeErrorMembers(m, i, acc) ==
    IF i > Len(m) THEN acc
    ELSE LET v == m[i].v IN
         IF v.t = "null" THEN decodeErrorMembers(m, i + 1, acc)
         ELSE IF EqualFold(m[i].k, << "e", "r", "r", "o", "r" >>)
         THEN IF v.t = "obj"
              THEN decodeErrorMembers(m, i + 1, decodeErrorDetail(v.m, 1, acc))
              ELSE decodeErrorMembers(m, i + 1, [acc EXCEPT !.err = "type"])
         ELSE IF EqualFold(m[i].k, << "H", "T", "T", "P", "S", "t", "a", "t", "u", "s", "C", "o", "d",
       "e" >>)
         THEN IF v.t = "num"
              THEN decodeErrorMembers(m, i + 1, [acc EXCEPT !.HTTPStatusCode = toInt(v.s)])
              ELSE decodeErrorMembers(m, i + 1, [acc EXCEPT !.err = "type"])
         ELSE decodeErrorMembers(m, i + 1, acc)

\* dec.Decode(&errResp) on the response body (client.go 135)
decodeErrorResponse(data) ==
    CHOOSE out \in
      { IF r.err # "nil" THEN [ZeroErrorResponse EXCEPT !.err = r.err]
        ELSE IF r.v.t = "null" THEN ZeroErrorResponse
        ELSE IF r.v.t # "obj" THEN [ZeroErrorResponse EXCEPT !.err = "type"]
        ELSE decodeErrorMembers(r.v.m, 1, ZeroErrorResponse) :
        r \in { readValue(data) } } : TRUE

\* the result a method hands to do: nothing (v == nil) or a zero response
\* struct of some kind, of whose fields the transaction id, Location, Alias
\* and RawJSONBody are modelled
NoResult ==
    [kind |-> "nil", populated |-> FALSE, TransactionId |-> << >>,
     Location |-> << >>, Alias |-> << >>, RawJSONBody |-> << >>, err |-> "nil"]
ZeroResult(kind) == [NoResult EXCEPT !.kind = kind]

\* the response types with a field tagged "transactionId"
hasTransactionId(kind) ==
    kind \in { "ResponseInitialize", "ResponseStatus", "ResponseCardMasked",
               "ResponseReconciliationsSale" }

\* v.(rawJSONBodySetter): the response types embedding RawJSONBody
isRawJSONBodySetter(kind) ==
    kind \in { "ResponseInitialize", "ResponseStatus", "ResponseCardMasked",
               "ResponseAuthorize" }

RECURSIVE decodeResultMembers(_, _, _)
\* the members of the response object into the fields of v's type
decodeResultMembers(m, i, acc) ==
    IF i > Len(m) THEN acc
    ELSE LET v == m[i].v
             isID == hasTransactionId(acc.kind)
                     /\ EqualFold(m[i].k, << "t", "r", "a", "n", "s", "a", "c", "t", "i", "o",
                       "n", "I", "d" >>)
             isLoc == acc.kind = "ResponseInitialize"
                      /\ EqualFold(m[i].k, << "l", "o", "c", "a", "t", "i", "o", "n" >>)
             isAlias == acc.kind = "struct{Alias}"
                        /\ EqualFold(m[i].k, << "a", "l", "i", "a", "s" >>)
         IN IF ~(isID \/ isLoc \/ isAlias) \/ v.t = "null"
            THEN decodeResultMembers(m, i + 1, acc)
            ELSE IF v.t # "str"
            THEN decodeResultMembers(m, i + 1, [acc EXCEPT !.err = "type"])
            ELSE IF isID
            THEN decodeResultMembers(m, i + 1, [acc EXCEPT !.TransactionId = v.s])
            ELSE IF isLoc
            THEN decodeResultMembers(m, i + 1, [acc EXCEPT !.Location = v.s])
            ELSE decodeResultMembers(m, i + 1, [acc EXCEPT !.Alias = v.s])

\* dec.Decode(v) on the response body (client.go 142)
decodeResult(data, v) ==
    CHOOSE out \in
      { LET w == [v EXCEPT !.populated = TRUE]
        IN IF r.err # "nil" THEN [v EXCEPT !.err = r.err]
           ELSE IF r.v.t = "null" THEN w
           ELSE IF r.v.t # "obj" THEN [v EXCEPT !.err = "type"]
           ELSE decodeResultMembers(r.v.m, 1, w) :
        r \in { readValue(data) } } : TRUE

\* isSuccess with 300 counted as a success
isSuccessUpTo300(statusCode) == statusCode >= 200 /\ statusCode <= 300

\* isSuccess (client.go 158-160)
isSuccess(statusCode) == statusCode >= 200 /\ statusCode < 300

\* closeResponse leaving the body open
closeResponseNoClose(r, rb) == rb

\* closeResponse (client.go 162-168) on the body state rb = [pos, closes,
\* drains]: nothing for a nil response or a nil body; otherwise the rest of
\* the body is copied to ioutil.Discard, up to its end or to the read
\* failure, and the body is closed
closeResponse(r, rb) ==
    IF r.isNil \/ r.bodyNil THEN rb
    ELSE [pos |-> IF r.failAt = -1 THEN Len(r.Body) ELSE rb.pos,
          closes |-> rb.closes + 1,
          drains |-> rb.drains + 1]

NoIdempotencyKey == [set |-> FALSE, key |-> << >>]
NoAuth == [set |-> FALSE, username |-> << >>, password |-> << >>]
NoPostData == [type |-> "nil"]
NoReq ==
    [method |-> "", host |-> << >>, path |-> << >>, hasBody |-> FALSE,
     body |-> << >>, contentType |-> FALSE, idem |-> NoIdempotencyKey, auth |-> NoAuth]

\* the Idempotency-Key of client.go 230-233
IdempotencyKey(internalID, host, path, jsonBytes) ==
    EncodeToString(fnvSum(fnvWrite(fnvWrite(fnvNew64a, Bytes(internalID \o host \o path)),
                                   Bytes(jsonBytes))))

\* prepareJSONReq setting the key for every method
prepareJSONReqAnyMethod(c, merchants, method, path, postData) ==
    LET internalID == c.currentInternalID
        host == IF Merchant(merchants, internalID).EnableProduction
                THEN endpointURLProduction ELSE endpointURLSandBox
    IN CHOOSE out \in
         { [method |-> method, host |-> host, path |-> path,
            hasBody |-> postData.type # "nil", body |-> jsonBytes,
            contentType |-> postData.type # "nil",
            idem |-> IF Merchant(merchants, internalID).EnableIdempotency
                     THEN [set |-> TRUE,
                           key |-> IdempotencyKey(internalID, host, path, jsonBytes)]
                     ELSE NoIdempotencyKey,
            auth |-> NoAuth] :
           jsonBytes \in { IF postData.type # "nil" THEN MarshalJSON(postData)
                           ELSE << >> } } : TRUE

\* prepareJSONReq (client.go 202-237); the method and the URL are well
\* formed, so http.NewRequestWithContext does not fail
prepareJSONReq(c, merchants, method, path, postData) ==
    LET internalID == c.currentInternalID
        host == IF Merchant(merchants, internalID).EnableProduction
                THEN endpointURLProduction ELSE endpointURLSandBox
    IN CHOOSE out \in
         { [method |-> method, host |-> host, path |-> path,
            hasBody |-> postData.type # "nil", body |-> jsonBytes,
            contentType |-> postData.type # "nil",
            idem |-> IF method = "POST" /\ Merchant(merchants, internalID).EnableIdempotency
                     THEN [set |-> TRUE,
                           key |-> IdempotencyKey(internalID, host, path, jsonBytes)]
                     ELSE NoIdempotencyKey,
            auth |-> NoAuth] :
           jsonBytes \in { IF postData.type # "nil" THEN MarshalJSON(postData)
                           ELSE << >> } } : TRUE

\* ------------------------------------------------------------ client inputs
MaxMerchants == 2     \* most OptionMerchant values passed to MakeClient
MaxClients == 3       \* the client MakeClient returns and those derived from it

\* OptionMerchant values: two for the default InternalID "", one for "B"
MerchantDefault ==
    [InternalID |-> << >>, EnableProduction |-> FALSE, EnableIdempotency |-> TRUE,
     DisableRawJSONBody |-> FALSE, MerchantID |-> << "u", "0" >>, Password |-> << "p", "0" >>]
MerchantDefaultProd ==
    [InternalID |-> << >>, EnableProduction |-> TRUE, EnableIdempotency |-> FALSE,
     DisableRawJSONBody |-> TRUE, MerchantID |-> << "u", "1" >>, Password |-> << "p", "1" >>]
MerchantB ==
    [InternalID |-> << "B" >>, EnableProduction |-> TRUE, EnableIdempotency |-> TRUE,
     DisableRawJSONBody |-> FALSE, MerchantID |-> << "u", "B" >>, Password |-> << "p", "B" >>]

OptionMerchants == { MerchantDefault, MerchantDefaultProd, MerchantB }

RECURSIVE OptionLists(_)
\* the opts of MakeClient: up to n merchants in any order
OptionLists(n) ==
    IF n = 0 THEN { << >> }
    ELSE LET shorter == OptionLists(n - 1)
         IN shorter \cup { Append(o, m) : o \in shorter, m \in OptionMerchants }

\* the ids given to WithMerchant: the default, a configured and an unknown one
InternalIDs == { << >>, << "B" >>, << "X" >> }

RefNos == { << >>, << "r" >> }
Amounts == { Zero, << "1", "3", "3", "7" >>, SuccDigits(TwoTo53) }

\* CustomFields maps: nil, a new key, and a key of the struct together with
\* a new key that holds a map
CustomFieldsSets ==
    { << >>,
      [k \in { << "a", "l", "p" >> } |-> jBool(TRUE)],
      [k \in { << "a", "m", "o", "u", "n", "t" >>, << "t", "w", "i" >> } |->
         IF k = << "a", "m", "o", "u", "n", "t" >> THEN jNum(<< "7" >>)
         ELSE jObj(<< [k |-> << "a", "l", "i", "a", "s" >>, v |-> jStr(<< "Z" >>)] >>)] }

RequestInitializes ==
    { [type |-> "RequestInitialize", Currency |-> << "C", "H", "F" >>,
       RefNo |-> << "r" >>, RefNo2 |-> << >>, AutoSettle |-> TRUE, Amount |-> a,
       Language |-> << "D", "E" >>, CustomFields |-> cf] :
      a \in Amounts, cf \in CustomFieldsSets }

RequestSecureFieldsUpdates ==
    { [type |-> "RequestSecureFieldsUpdate", Currency |-> << "C", "H", "F" >>,
       Amount |-> a, CustomFields |-> cf] :
      a \in { Zero, << "5" >> }, cf \in { << >>, [k \in { << "a", "l", "p" >> } |-> jBool(TRUE)] } }

\* what doFn returns: a response and an error.  On a nil error the response
\* and its body are there (the contract of http.Client.Do).  The bodies: a
\* result, an error, an error of the wrong shape, an array, a null followed
\* by another character, and text that is no JSON.
StatusCodes == { 199, 200, 299, 300 }

ResponseBodies ==
    { << "{", "\"", "t", "r", "a", "n", "s", "a", "c", "t", "i", "o", "n",
         "I", "d", "\"", ":", "\"", "2", "1", "\"", "}" >>,
      << "{", "\"", "e", "r", "r", "o", "r", "\"", ":", " ", "{", "\"",
         "c", "o", "d", "e", "\"", ":", "\"", "E", "\"", ",", "\"", "m",
         "e", "s", "s", "a", "g", "e", "\"", ":", "\"", "m", "\"", "}",
         "}" >>,
      << "{", "\"", "e", "r", "r", "o", "r", "\"", ":", "\"", "x", "\"",
         "}" >>,
      << "[", "]" >>,
      << "n", "u", "l", "l", "x" >>,
      << "<", "h", "t", "m", "l", ">" >> }

NoResp ==
    [err |-> "nil", isNil |-> TRUE, bodyNil |-> TRUE, StatusCode |-> 0,
     Body |-> << >>, failAt |-> -1, Location |-> << >>]

Responses ==
    { [NoResp EXCEPT !.isNil = FALSE, !.bodyNil = FALSE, !.StatusCode = s, !.Body = b] :
        s \in StatusCodes, b \in ResponseBodies }
    \cup { [NoResp EXCEPT !.isNil = FALSE, !.bodyNil = FALSE, !.StatusCode = 200,
                          !.Body = << "{", "\"", "t", "r", "a", "n", "s", "a", "c", "t", "i", "o", "n",
         "I", "d", "\"", ":", "\"", "2", "1", "\"", "}" >>, !.Location = << "/", "p" >>] }
    \cup { [NoResp EXCEPT !.isNil = FALSE, !.bodyNil = FALSE, !.StatusCode = s,
                          !.Body = << "{", "\"", "e", "r", "r", "o", "r", "\"", ":", " ", "{", "\"",
         "c", "o", "d", "e", "\"", ":", "\"", "E", "\"", ",", "\"", "m",
         "e", "s", "s", "a", "g", "e", "\"", ":", "\"", "m", "\"", "}",
         "}" >>, !.failAt = 0] : s \in { 200, 400 } }
    \cup { [NoResp EXCEPT !.isNil = FALSE, !.bodyNil = FALSE, !.StatusCode = 400] }
    \cup { [NoResp EXCEPT !.err = "transport"],
           [NoResp EXCEPT !.err = "transport", !.isNil = FALSE],
           [NoResp EXCEPT !.err = "transport", !.isNil = FALSE, !.bodyNil = FALSE,
                          !.StatusCode = 300, !.Body = << "x" >>] }

\* ------------------------------------------------------------ client state
NoRet == [err |-> "nil", errResp |-> ZeroErrorResponse, hasResult |-> FALSE, v |-> NoResult]
NoBody == [pos |-> 0, closes |-> 0, drains |-> 0]

\* cl between two calls: the merchants map shared by all clients, the
\* clients (the first is the one MakeClient returned), and no call
ReadyClient(merchants, clients) ==
    [pc |-> "ready", merchants |-> merchants, clients |-> clients, cur |-> 0,
     api |-> "", postData |-> NoPostData, req |-> NoReq, doFnCalls |-> 0,
     resp |-> NoResp, rb |-> NoBody, ret |-> NoRet]

whVars == << pc, key, mw, wo, eh, other, reqVars >>

RECURSIVE applyOptions(_, _, _)
\* the loop of MakeClient over opts: OptionMerchant.apply (client.go 55-61)
applyOptions(opts, i, merchants) ==
    IF i > Len(opts) THEN [err |-> "nil", merchants |-> merchants]
    ELSE IF opts[i].InternalID \in DOMAIN merchants
    THEN [err |-> "already exists", merchants |-> merchants]
    ELSE applyOptions(opts, i + 1,
                      [k \in DOMAIN merchants \cup { opts[i].InternalID } |->
                         IF k = opts[i].InternalID THEN opts[i] ELSE merchants[k]])

\* the lookup that finds every InternalID
merchantFoundAlways(merchants, internalID) == TRUE

\* _, found = c.merchants[internalID] (client.go 104, 112)
merchantFound(merchants, internalID) == internalID \in DOMAIN merchants

\* MakeClient (client.go 81-106)
MakeClient ==
    /\ cl.pc = "new"
    /\ \E opts \in OptionLists(MaxMerchants) :
         LET a == applyOptions(opts, 1, << >>) IN
         cl' = IF a.err # "nil" THEN [pc |-> "failed", makeErr |-> a.err]
               ELSE IF DOMAIN a.merchants = {}
               THEN [pc |-> "failed", makeErr |-> "no merchants applied"]
               ELSE ReadyClient(a.merchants,
                                << [currentInternalID |-> << >>,
                                    internalIDFound |-> merchantFound(a.merchants, << >>)] >>)
    /\ UNCHANGED whVars

\* WithMerchant writing the id into its receiver and returning it
WithMerchantInPlace ==
    /\ cl.pc = "ready"
    /\ Len(cl.clients) < MaxClients
    /\ \E i \in 1..Len(cl.clients), internalID \in InternalIDs :
         LET c2 == [currentInternalID |-> internalID,
                    internalIDFound |-> merchantFound(cl.merchants, internalID)]
         IN cl' = [cl EXCEPT !.clients = Append([@ EXCEPT ![i] = c2], c2)]
    /\ UNCHANGED whVars

\* WithMerchant (client.go 109-114) called on client i: a copy with the id
\* set; the copy shares the merchants map
WithMerchant ==
    /\ cl.pc = "ready"
    /\ Len(cl.clients) < MaxClients
    /\ \E i \in 1..Len(cl.clients), internalID \in InternalIDs :
         LET c2 == [cl.clients[i] EXCEPT
                      !.currentInternalID = internalID,
                      !.internalIDFound = merchantFound(cl.merchants, internalID)]
         IN cl' = [cl EXCEPT !.clients = Append(@, c2)]
    /\ UNCHANGED whVars

\* an API method returning its argument error before any request is built
invalidArguments(i, api) ==
    cl' = [cl EXCEPT !.pc = "done", !.cur = i, !.api = api,
                     !.ret = [NoRet EXCEPT !.err = "invalid arguments"]]

\* do up to the call of doFn (client.go 116-123): without a found merchant
\* it returns its error, else it sets the basic auth and calls doFn
doRequest(i, api, postData, req, v) ==
    LET c == cl.clients[i]
        m == Merchant(cl.merchants, c.currentInternalID)
        called == [cl EXCEPT !.cur = i, !.api = api, !.postData = postData,
                             !.req = req, !.ret = [NoRet EXCEPT !.v = v]]
    IN IF ~c.internalIDFound
       THEN cl' = [called EXCEPT !.pc = "done", !.ret.err = "not found"]
       ELSE cl' = [called EXCEPT
                     !.pc = "sent",
                     !.req.auth = [set |-> TRUE, username |-> m.MerchantID,
                                   password |-> m.Password],
                     !.doFnCalls = @ + 1]

\* Status (client.go 241-261)
Status ==
    /\ cl.pc = "ready"
    /\ \E i \in 1..Len(cl.clients), transactionID \in { << >>, << "7" >> } :
         IF transactionID = << >> THEN invalidArguments(i, "Status")
         ELSE LET internalID == cl.clients[i].currentInternalID
                  host == IF Merchant(cl.merchants, internalID).EnableProduction
                          THEN endpointURLProduction ELSE endpointURLSandBox
              IN doRequest(i, "Status", NoPostData,
                           [NoReq EXCEPT !.method = "GET", !.host = host,
                                         !.path = pathStatus(transactionID)],
                           ZeroResult("ResponseStatus"))
    /\ UNCHANGED whVars

\* Initialize (client.go 418-432)
Initialize ==
    /\ cl.pc = "ready"
    /\ \E i \in 1..Len(cl.clients), rva \in RequestInitializes :
         IF rva.Amount = Zero \/ rva.Currency = << >> \/ rva.RefNo = << >>
         THEN invalidArguments(i, "Initialize")
         ELSE doRequest(i, "Initialize", rva,
                        prepareJSONReq(cl.clients[i], cl.merchants, "POST", pathInitialize, rva),
                        ZeroResult("ResponseInitialize"))
    /\ UNCHANGED whVars

\* Cancel (client.go 307-324)
Cancel ==
    /\ cl.pc = "ready"
    /\ \E i \in 1..Len(cl.clients), transactionID \in { << "7" >> }, refno \in RefNos :
         IF transactionID = << >> \/ refno = << >> THEN invalidArguments(i, "Cancel")
         ELSE LET postData == [type |-> "struct{Refno}", Refno |-> refno] IN
              doRequest(i, "Cancel", postData,
                        prepareJSONReq(cl.clients[i], cl.merchants, "POST",
                                       pathCancel(transactionID), postData),
                        NoResult)
    /\ UNCHANGED whVars

\* SecureFieldsUpdate (client.go 457-470)
SecureFieldsUpdate ==
    /\ cl.pc = "ready"
    /\ \E i \in 1..Len(cl.clients), transactionID \in { << "7" >> },
          rva \in RequestSecureFieldsUpdates :
         IF rva.Amount = Zero \/ rva.Currency = << >>
         THEN invalidArguments(i, "SecureFieldsUpdate")
         ELSE doRequest(i, "SecureFieldsUpdate", rva,
                        prepareJSONReq(cl.clients[i], cl.merchants, "PATCH",
                                       pathSecureFieldsUpdate(transactionID), rva),
                        NoResult)
    /\ UNCHANGED whVars

\* AliasDelete (client.go 497-509)
AliasDelete ==
    /\ cl.pc = "ready"
    /\ \E i \in 1..Len(cl.clients), alias \in { << >>, << "a" >> } :
         IF alias = << >> THEN invalidArguments(i, "AliasDelete")
         ELSE doRequest(i, "AliasDelete", NoPostData,
                        prepareJSONReq(cl.clients[i], cl.merchants, "DELETE",
                                       pathAliasesDelete(alias), NoPostData),
                        NoResult)
    /\ UNCHANGED whVars

\* The methods below are called with one argument that passes the method's
\* check and, where there is a check, one that fails it.

\* Credit (client.go 265-281)
Credit ==
    /\ cl.pc = "ready"
    /\ \E i \in 1..Len(cl.clients), transactionID \in { << "7" >> },
          rc \in
            { [type |-> "RequestCredit", Amount |-> << "5" >>, Currency |-> << "C", "H", "F" >>,
            RefNo |-> r, RefNo2 |-> << >>, CustomFields |-> << >>] : r \in RefNos } :
         IF transactionID = << >> \/ rc.Currency = << >> \/ rc.RefNo = << >> THEN invalidArguments(i, "Credit")
         ELSE doRequest(i, "Credit", rc,
                        prepareJSONReq(cl.clients[i], cl.merchants, "POST",
                                       pathCredit(transactionID), rc),
                        ZeroResult("ResponseCardMasked"))
    /\ UNCHANGED whVars

\* CreditAuthorize (client.go 286-300)
CreditAuthorize ==
    /\ cl.pc = "ready"
    /\ \E i \in 1..Len(cl.clients),
          rca \in
            { [type |-> "RequestCreditAuthorize", Currency |-> << "C", "H", "F" >>, RefNo |-> << "r" >>,
            Amount |-> a, AutoSettle |-> FALSE, Refno2 |-> << "s" >>,
            CustomFields |-> << >>] : a \in { Zero, << "5" >> } } :
         IF rca.Currency = << >> \/ rca.RefNo = << >> \/ rca.Amount = Zero THEN invalidArguments(i, "CreditAuthorize")
         ELSE doRequest(i, "CreditAuthorize", rca,
                        prepareJSONReq(cl.clients[i], cl.merchants, "POST",
                                       pathCreditAuthorize, rca),
                        ZeroResult("ResponseCardMasked"))
    /\ UNCHANGED whVars

\* Settle (client.go 331-344)
Settle ==
    /\ cl.pc = "ready"
    /\ \E i \in 1..Len(cl.clients), transactionID \in { << "7" >> },
          rs \in
            { [type |-> "RequestSettle", Amount |-> a, Currency |-> << "C", "H", "F" >>,
            RefNo |-> << "r" >>, RefNo2 |-> << >>,
            CustomFields |-> [k \in { << "a", "l", "p" >> } |-> jBool(TRUE)]] :
            a \in { Zero, << "5" >> } } :
         IF transactionID = << >> \/ rs.Amount = Zero \/ rs.Currency = << >> \/ rs.RefNo = << >> THEN invalidArguments(i, "Settle")
         ELSE doRequest(i, "Settle", rs,
                        prepareJSONReq(cl.clients[i], cl.merchants, "POST",
                                       pathSettle(transactionID), rs),
                        NoResult)
    /\ UNCHANGED whVars

\* ValidateAlias (client.go 351-365)
ValidateAlias ==
    /\ cl.pc = "ready"
    /\ \E i \in 1..Len(cl.clients),
          rva \in
            { [type |-> "RequestValidateAlias", Currency |-> c, RefNo |-> << "r" >>,
            RefNo2 |-> << >>, CustomFields |-> << >>] : c \in { << >>, << "C", "H", "F" >> } } :
         IF rva.Currency = << >> \/ rva.RefNo = << >> THEN invalidArguments(i, "ValidateAlias")
         ELSE doRequest(i, "ValidateAlias", rva,
                        prepareJSONReq(cl.clients[i], cl.merchants, "POST",
                                       pathValidate, rva),
                        ZeroResult("ResponseCardMasked"))
    /\ UNCHANGED whVars

\* AuthorizeTransaction (client.go 371-385)
AuthorizeTransaction ==
    /\ cl.pc = "ready"
    /\ \E i \in 1..Len(cl.clients), transactionID \in { << "7" >> },
          rva \in
            { [type |-> "RequestAuthorizeTransaction", RefNo |-> r, Amount |-> Zero,
            AutoSettle |-> TRUE, RefNo2 |-> << >>, CustomFields |-> << >>] : r \in RefNos } :
         IF transactionID = << >> \/ rva.RefNo = << >> THEN invalidArguments(i, "AuthorizeTransaction")
         ELSE doRequest(i, "AuthorizeTransaction", rva,
                        prepareJSONReq(cl.clients[i], cl.merchants, "POST",
                                       pathAuthorizeTransaction(transactionID), rva),
                        ZeroResult("ResponseAuthorize"))
    /\ UNCHANGED whVars

\* Authorize (client.go 393-407)
Authorize ==
    /\ cl.pc = "ready"
    /\ \E i \in 1..Len(cl.clients),
          rva \in
            { [type |-> "RequestAuthorize", Amount |-> << "5" >>, Currency |-> c,
            RefNo |-> << "r" >>, RefNo2 |-> << >>, AutoSettle |-> FALSE,
            CustomFields |-> << >>] : c \in { << >>, << "C", "H", "F" >> } } :
         IF rva.Amount = Zero \/ rva.Currency = << >> \/ rva.RefNo = << >> THEN invalidArguments(i, "Authorize")
         ELSE doRequest(i, "Authorize", rva,
                        prepareJSONReq(cl.clients[i], cl.merchants, "POST",
                                       pathAuthorize, rva),
                        ZeroResult("ResponseCardMasked"))
    /\ UNCHANGED whVars

\* SecureFieldsInit (client.go 437-451)
SecureFieldsInit ==
    /\ cl.pc = "ready"
    /\ \E i \in 1..Len(cl.clients),
          rva \in
            { [type |-> "RequestSecureFieldsInit", Currency |-> << "C", "H", "F" >>, Amount |-> << "5" >>,
            ReturnUrl |-> u, CustomFields |-> << >>] : u \in { << >>, << "/", "u" >> } } :
         IF rva.Amount = Zero \/ rva.Currency = << >> \/ rva.ReturnUrl = << >> THEN invalidArguments(i, "SecureFieldsInit")
         ELSE doRequest(i, "SecureFieldsInit", rva,
                        prepareJSONReq(cl.clients[i], cl.merchants, "POST",
                                       pathSecureFields, rva),
                        ZeroResult("ResponseInitialize"))
    /\ UNCHANGED whVars

\* AliasConvert (client.go 474-493)
AliasConvert ==
    /\ cl.pc = "ready"
    /\ \E i \in 1..Len(cl.clients), legacyAlias \in { << >>, << "9" >> } :
         IF legacyAlias = << >> THEN invalidArguments(i, "AliasConvert")
         ELSE LET postData == [type |-> "struct{LegacyAlias}", LegacyAlias |-> legacyAlias] IN
              doRequest(i, "AliasConvert", postData,
                        prepareJSONReq(cl.clients[i], cl.merchants, "POST",
                                       pathAliases, postData),
                        ZeroResult("struct{Alias}"))
    /\ UNCHANGED whVars

\* ReconciliationsSales (client.go 513-523): no argument is checked.  The
\* sale has the zero time.Time, held as the text it encodes to.
ReconciliationsSales ==
    /\ cl.pc = "ready"
    /\ \E i \in 1..Len(cl.clients),
          sale \in
            { [type |-> "RequestReconciliationsSale",
              Date |-> << "0", "0", "0", "1", "-", "0", "1", "-", "0", "1", "T",
              "0", "0", ":", "0", "0", ":", "0", "0", "Z" >>,
              TransactionID |-> << "7" >>, Currency |-> << "C", "H", "F" >>, Amount |-> Zero,
              Type |-> << >>, Refno |-> << "r" >>] } :
         doRequest(i, "ReconciliationsSales", sale,
                   prepareJSONReq(cl.clients[i], cl.merchants, "POST",
                                  pathReconciliationsSales, sale),
                   ZeroResult("ResponseReconciliationsSale"))
    /\ UNCHANGED whVars

\* ReconciliationsSalesBulk (client.go 528-538): no argument is checked; a
\* nil slice and a slice of one sale
ReconciliationsSalesBulk ==
    /\ cl.pc = "ready"
    /\ \E i \in 1..Len(cl.clients),
          sales \in
            { [type |-> "RequestReconciliationsSales", Sales |-> x] :
              x \in { << >>,
                      << [type |-> "RequestReconciliationsSale",
                          Date |-> << "0", "0", "0", "1", "-", "0", "1", "-", "0", "1", "T",
                                      "0", "0", ":", "0", "0", ":", "0", "0", "Z" >>,
                          TransactionID |-> << "7" >>, Currency |-> << "C", "H", "F" >>,
                          Amount |-> Zero, Type |-> << >>, Refno |-> << "r" >>] >> } } :
         doRequest(i, "ReconciliationsSalesBulk", sales,
                   prepareJSONReq(cl.clients[i], cl.merchants, "POST",
                                  pathReconciliationsSalesBulk, sales),
                   ZeroResult("ResponseReconciliationsSales"))
    /\ UNCHANGED whVars

\* do after doFn has returned r, up to its return statement (client.go
\* 125-155): the error, the ErrorResponse, the result v and the position in
\* the body.  The decoder reads the body through the TeeReader; the modelled
\* bodies fit into its first read, so buf holds the whole body.
doDecode(m, r, v) ==
    LET out == [err |-> "nil", errResp |-> ZeroErrorResponse, v |-> v, pos |-> 0]
        n == Len(r.Body)
    IN IF r.err # "nil" THEN [out EXCEPT !.err = "transport"]
       ELSE IF ~isSuccess(r.StatusCode)
       THEN IF r.failAt # -1 THEN [out EXCEPT !.err = "unmarshal"]
            ELSE CHOOSE res \in
                   { IF e.err # "nil" THEN [out EXCEPT !.err = "unmarshal", !.pos = n]
                     ELSE [out EXCEPT !.err = "ErrorResponse", !.pos = n,
                                      !.errResp = [e EXCEPT !.HTTPStatusCode = r.StatusCode]] :
                     e \in { decodeErrorResponse(r.Body) } } : TRUE
       ELSE IF v.kind = "nil" THEN out
       ELSE IF r.failAt # -1 THEN [out EXCEPT !.err = "unmarshal"]
       ELSE CHOOSE res \in
              { LET withLoc == IF d.kind = "ResponseInitialize" /\ r.Location # << >>
                               THEN [d EXCEPT !.Location = r.Location] ELSE d
                    withRaw == IF ~m.DisableRawJSONBody /\ isRawJSONBodySetter(d.kind)
                               THEN [withLoc EXCEPT !.RawJSONBody = r.Body] ELSE withLoc
                IN IF d.err # "nil"
                   THEN [out EXCEPT !.err = "unmarshal", !.v = d, !.pos = n]
                   ELSE [out EXCEPT !.v = withRaw, !.pos = n] :
                d \in { decodeResult(r.Body, v) } } : TRUE

\* doFn returns; do decodes, its deferred closeResponse runs, and the API
\* method returns: a result only with a nil error
doResponse ==
    /\ cl.pc = "sent"
    /\ \E r \in Responses :
       \E d \in { doDecode(Merchant(cl.merchants, cl.clients[cl.cur].currentInternalID),
                            r, cl.ret.v) } :
            cl' = [cl EXCEPT
                     !.pc = "done",
                     !.resp = r,
                     !.rb = closeResponse(r, [cl.rb EXCEPT !.pos = d.pos]),
                     !.ret = [err |-> d.err, errResp |-> d.errResp, v |-> d.v,
                              hasResult |-> d.err = "nil" /\ d.v.kind # "nil"]]
    /\ UNCHANGED whVars

\* the caller has the return values; the client is ready for the next call
Return ==
    /\ cl.pc = "done"
    /\ cl' = ReadyClient(cl.merchants, cl.clients)
    /\ UNCHANGED whVars

NextClient ==
    \/ MakeClient
    \/ WithMerchant
    \/ Status
    \/ Initialize
    \/ Cancel
    \/ SecureFieldsUpdate
    \/ AliasDelete
    \/ Credit
    \/ CreditAuthorize
    \/ Settle
    \/ ValidateAlias
    \/ AuthorizeTransaction
    \/ Authorize
    \/ SecureFieldsInit
    \/ AliasConvert
    \/ ReconciliationsSales
    \/ ReconciliationsSalesBulk
    \/ doResponse
    \/ Return

SpecClient == Init /\ [][NextClient]_vars

\* ------------------------------------------------------ C21 .. C25, C30
\* a call is in progress or has just returned
InCall == cl.pc \in { "sent", "done" }

\* the client making the call and the merchant its InternalID selects
Caller == cl.clients[cl.cur]
CallerMerchant == Merchant(cl.merchants, Caller.currentInternalID)

\* C21: when the calling client's InternalID is not among the configured
\* merchants, the API call returns a non-nil error and no result, and doFn
\* is never called.
C21_UnknownMerchant ==
    (InCall /\ Caller.currentInternalID \notin DOMAIN cl.merchants) =>
        /\ cl.pc = "done"
        /\ cl.ret.err # "nil"
        /\ ~cl.ret.hasResult
        /\ cl.doFnCalls = 0
        /\ cl.resp = NoResp

C21_Witness ==
    /\ cl.pc = "done" /\ cl.api = "Initialize"
    /\ cl.cur > 1 /\ Caller.currentInternalID = << "X" >>
    /\ cl.ret.err = "not found" /\ cl.req.method = "POST"

\* the value v is null or an object whose members of that name (in any case)
\* are all null or of kind t
MembersAre(v, name, t) ==
    \/ v.t = "null"
    \/ /\ v.t = "obj"
       /\ \A i \in 1..Len(v.m) :
            EqualFold(v.m[i].k, name) => v.m[i].v.t \in { "null", t }

\* the body starts with a JSON value that fits ErrorResponse: null, or an
\* object whose "error" members are null or objects with "code" and
\* "message" members that are null or strings
DecodesAsErrorResponse(data) ==
    LET r == readValue(data) IN
    /\ r.err = "nil"
    /\ MembersAre(r.v, << "e", "r", "r", "o", "r" >>, "obj")
    /\ MembersAre(r.v, << "H", "T", "T", "P", "S", "t", "a", "t", "u", "s", "C", "o", "d",
       "e" >>, "num")
    /\ r.v.t = "obj" =>
         \A i \in 1..Len(r.v.m) :
            (EqualFold(r.v.m[i].k, << "e", "r", "r", "o", "r" >>) /\ r.v.m[i].v.t = "obj") =>
               /\ MembersAre(r.v.m[i].v, << "c", "o", "d", "e" >>, "str")
               /\ MembersAre(r.v.m[i].v, << "m", "e", "s", "s", "a", "g", "e" >>, "str")

\* doFn returned a response without error whose status is no success
ErrorStatus ==
    /\ cl.pc = "done" /\ cl.doFnCalls = 1
    /\ cl.resp.err = "nil" /\ cl.resp.failAt = -1
    /\ ~(cl.resp.StatusCode >= 200 /\ cl.resp.StatusCode <= 299)

\* C22: when the response status is outside 200..299 and the body decodes as
\* JSON (into ErrorResponse), the returned error wraps an ErrorResponse with
\* HTTPStatusCode equal to the status and the decoded code and message, and
\* no result is populated or returned.
C22_ErrorResponse ==
    (ErrorStatus /\ DecodesAsErrorResponse(cl.resp.Body)) =>
        /\ cl.ret.err = "ErrorResponse"
        /\ cl.ret.errResp.HTTPStatusCode = cl.resp.StatusCode
        /\ cl.resp.Body = << "{", "\"", "e", "r", "r", "o", "r", "\"", ":", " ", "{",
                 "\"", "c", "o", "d", "e", "\"", ":", "\"", "E", "\"", ",",
                 "\"", "m", "e", "s", "s", "a", "g", "e", "\"", ":", "\"",
                 "m", "\"", "}", "}" >> =>
              (cl.ret.errResp.Code = << "E" >> /\ cl.ret.errResp.Message = << "m" >>)
        /\ cl.resp.Body # << "{", "\"", "e", "r", "r", "o", "r", "\"", ":", " ", "{",
                 "\"", "c", "o", "d", "e", "\"", ":", "\"", "E", "\"", ",",
                 "\"", "m", "e", "s", "s", "a", "g", "e", "\"", ":", "\"",
                 "m", "\"", "}", "}" >> =>
              (cl.ret.errResp.Code = << >> /\ cl.ret.errResp.Message = << >>)
        /\ ~cl.ret.hasResult
        /\ ~cl.ret.v.populated

C22_Witness ==
    /\ ErrorStatus /\ cl.resp.StatusCode = 300 /\ cl.api = "Status"
    /\ cl.resp.Body = << "{", "\"", "e", "r", "r", "o", "r", "\"", ":", " ", "{",
                 "\"", "c", "o", "d", "e", "\"", ":", "\"", "E", "\"", ",",
                 "\"", "m", "e", "s", "s", "a", "g", "e", "\"", ":", "\"",
                 "m", "\"", "}", "}" >>
    /\ cl.ret.errResp = [HTTPStatusCode |-> 300, Code |-> << "E" >>,
                         Message |-> << "m" >>, err |-> "nil"]

\* C23: WithMerchant leaves every existing client as it was and the new
\* client is bound to the given InternalID; the client MakeClient returned
\* keeps the default InternalID, and every request is authenticated with
\* the credentials of the calling client's own merchant.
C23_ReceiverUnchanged ==
    [][ /\ (cl.pc = "ready" /\ cl'.pc = "ready") =>
              /\ Len(cl'.clients) \in { Len(cl.clients), Len(cl.clients) + 1 }
              /\ \A i \in 1..Len(cl.clients) : cl'.clients[i] = cl.clients[i]
        /\ cl'.pc \in { "sent", "done" } =>
              /\ cl'.clients[1].currentInternalID = << >>
              /\ cl'.req.auth.set =>
                   /\ cl'.clients[cl'.cur].currentInternalID \in DOMAIN cl'.merchants
                   /\ cl'.req.auth.username
                        = cl'.merchants[cl'.clients[cl'.cur].currentInternalID].MerchantID
                   /\ cl'.req.auth.password
                        = cl'.merchants[cl'.clients[cl'.cur].currentInternalID].Password
      ]_vars

C23_Witness ==
    /\ cl.pc = "done" /\ cl.cur = 1 /\ Len(cl.clients) = 3
    /\ cl.clients[2].currentInternalID = << "X" >>
    /\ cl.clients[3].currentInternalID = << "B" >>
    /\ cl.req.auth = [set |-> TRUE, username |-> MerchantDefault.MerchantID,
                      password |-> MerchantDefault.Password]

\* the request of the call was built by prepareJSONReq
BuiltByPrepareJSONReq ==
    InCall /\ cl.api # "Status" /\ cl.req.method # ""

\* C24: a request built by prepareJSONReq has an Idempotency-Key exactly when
\* the method is POST and the current merchant has EnableIdempotency, and the
\* key is the hash of the InternalID, host, path and JSON body alone.
C24_IdempotencyKey ==
    BuiltByPrepareJSONReq =>
        /\ cl.req.idem.set <=> (cl.req.method = "POST" /\ CallerMerchant.EnableIdempotency)
        /\ (cl.pc = "sent" /\ cl.req.idem.set) =>
             cl.req.idem.key = IdempotencyKey(Caller.currentInternalID, cl.req.host,
                                              cl.req.path, cl.req.body)
        /\ ~cl.req.idem.set => cl.req.idem.key = << >>

C24_Witness ==
    /\ cl.pc = "sent" /\ cl.api = "Initialize"
    /\ Caller.currentInternalID = << "B" >>
    /\ cl.req.host = endpointURLProduction
    /\ cl.req.idem.set /\ Len(cl.req.idem.key) = 16
    /\ cl.postData.CustomFields # << >>

\* the members named k of the object v
MembersNamed(v, k) == { i \in 1..Len(v.m) : v.m[i].k = k }

\* C25: MarshalJSON's output is an object in which every custom key appears
\* once with the custom value, every struct field whose JSON name is no
\* custom key appears with the struct's value, and which is the plain
\* encoding of the struct when CustomFields is empty.
C25_CustomFieldsMerged ==
    (InCall /\ cl.req.method # "" /\ isCustomFieldsGetter(cl.postData)) =>
        LET out == readValue(cl.req.body).v
            plain == structMembers(cl.postData)
            cf == cl.postData.CustomFields
        IN /\ out.t = "obj"
           /\ \A k \in DOMAIN cf :
                \E i \in 1..Len(out.m) :
                   /\ MembersNamed(out, k) = { i }
                   /\ encodeValue(out.m[i].v) = encodeValue(cf[k])
           /\ \A j \in 1..Len(plain) :
                plain[j].k \notin DOMAIN cf =>
                   \E i \in 1..Len(out.m) :
                      /\ MembersNamed(out, plain[j].k) = { i }
                      /\ encodeValue(out.m[i].v) = encodeValue(plain[j].v)
           /\ DOMAIN cf = {} => cl.req.body = jsonMarshal(cl.postData)

\* C30: when doFn returned a response with a body, the body has been drained
\* and closed exactly once when do returns, whatever the exit path; a body
\* that fails to read is closed all the same.
C30_BodyClosedOnce ==
    /\ (cl.pc = "done" /\ cl.doFnCalls = 1 /\ ~cl.resp.isNil /\ ~cl.resp.bodyNil) =>
          /\ cl.rb.closes = 1
          /\ cl.rb.drains = 1
          /\ cl.resp.failAt = -1 => cl.rb.pos = Len(cl.resp.Body)
    /\ (InCall /\ (cl.resp.isNil \/ cl.resp.bodyNil)) => cl.rb = NoBody

C30_Witness ==
    /\ cl.pc = "done" /\ cl.doFnCalls = 1
    /\ cl.resp.err = "transport" /\ ~cl.resp.isNil /\ ~cl.resp.bodyNil
    /\ cl.rb = [pos |-> Len(cl.resp.Body), closes |-> 1, drains |-> 1]
    /\ cl.rb.pos > 0

====
